---------------------------- MODULE Spec2Model ----------------------------
(***************************************************************************)
(* Model of hcid's D-Bus front end (src/hcid/dbus.c): the object-path      *)
(* namespace with its per-path records, controller registration and the    *)
(* default controller, the bus connection life cycle with the reconnect    *)
(* timer, the PIN request correlator and the manager services.             *)
(*                                                                         *)
(* hcid is single threaded: every action below is one complete handler     *)
(* call.  Results of the collaborators the code calls (libdbus, the HCI    *)
(* socket, the kernel, malloc) are drawn with \E from the outcomes the     *)
(* code distinguishes.                                                     *)
(***************************************************************************)
EXTENDS Integers, Sequences, FiniteSets, TLC

(***************************************************************************)
(* Bounds of the model.                                                    *)
(***************************************************************************)
\* controllers hci0 .. hci<MaxDev-1>
MaxDev == 2
\* peer addresses 1 .. MaxAddr
MaxAddr == 2
\* PIN-needed events handled in one run
MaxPinReq == 1
\* longest PIN string a PIN agent returns
MaxPinLen == 17
\* longest service table the routers are applied to
MaxTable == 3

Devs == 0 .. (MaxDev - 1)
Addrs == 1 .. MaxAddr

(***************************************************************************)
(* Program constants.                                                      *)
(***************************************************************************)
\* bluetooth/hci.h scan-enable bits, used by hcid_dbus_register_device
SCAN_DISABLED == 0
SCAN_INQUIRY == 1
SCAN_PAGE == 2
\* uint16_t "no controller" id of the two root entries
INVALID_DEV_ID == 65535
\* sizeof pin_code_reply_cp.pin_code, the buffer reply_handler_function fills
PIN_CODE_SIZE == 16
\* default_dev when there is no default controller
NO_DEFAULT == -1
\* DBUS_RECONNECT_TIMER in microseconds, and the largest canonical tv_usec
DBUS_RECONNECT_TIMER == 5 * 1000 * 1000
MAX_CANONICAL_USEC == 1000 * 1000 - 1

ScanValues == {SCAN_DISABLED, SCAN_INQUIRY, SCAN_PAGE, SCAN_PAGE + SCAN_INQUIRY}
\* marks an hci_dbus_data.path_data that was never written since malloc
UNINIT == -1

(***************************************************************************)
(* Object paths and per-path records (struct hci_dbus_data).               *)
(***************************************************************************)
DEVICE_PATH == <<"Device">>
MANAGER_PATH == <<"Manager">>
DevPath(id) == <<"Device", id>>
Paths == {DEVICE_PATH, MANAGER_PATH} \cup {DevPath(d) : d \in Devs}

DEVICE_PATH_ID == "DEVICE_PATH_ID"
DEVICE_ROOT_ID == "DEVICE_ROOT_ID"
MANAGER_ROOT_ID == "MANAGER_ROOT_ID"

\* no handler bound to a path
NoEntry == [path_id |-> "none", dev_id |-> INVALID_DEV_ID,
            path_data |-> UNINIT, fallback |-> FALSE, freed |-> FALSE]
EmptyTree == [p \in Paths |-> NoEntry]

IsBound(tr, path) == tr[path].path_id # "none"

VARIABLES
    started,      \* hcid's main called hcid_dbus_init
    crashed,      \* the process was ended by an invalid memory access
    connection,   \* the static DBusConnection pointer: "NULL", "open" (a
                  \* connected connection), "dead" (the peer is gone, the
                  \* object is still referenced), "stale" (closed and
                  \* released by the signal filter: the pointer dangles)
    busUp,        \* the system bus can be reached
    filterOn,     \* hci_dbus_signal_filter is installed on the connection
    tree,         \* the connection's object tree: path -> record
    default_dev,  \* the static default_dev
    kernelDevs,   \* controllers the kernel enumerates
    timerArmed,   \* ITIMER_REAL is running with reconnect_timer_handler
    pinreq,       \* one record per hcid_dbus_request_pin call
    last          \* the operation that ran last, with the results it saw

vars == <<started, crashed, connection, busUp, filterOn, tree, default_dev,
          kernelDevs, timerArmed, pinreq, last>>

\* A variant of register_dbus_path that leaves dev_id at INVALID_DEV_ID, as
\* the root records have it: with it the lookup of a device path no longer
\* yields the controller's id.
register_dbus_path_without_id(conn, tr, path, path_id, dev_id, fallback, ok) ==
    IF ok /\ conn # "NULL" /\ ~IsBound(tr, path)
    THEN [ret |-> TRUE,
          tree |-> [tr EXCEPT ![path] =
                      [path_id |-> path_id, dev_id |-> INVALID_DEV_ID,
                       path_data |-> UNINIT, fallback |-> fallback,
                       freed |-> FALSE]]]
    ELSE [ret |-> FALSE, tree |-> tr]

(***************************************************************************)
(* register_dbus_path: allocate a record and bind it to the path.  ok is   *)
(* the outcome of malloc and of libdbus's own allocations; the record's    *)
(* path_data is not written here.  libdbus refuses a NULL connection and a *)
(* path that already has a handler.                                        *)
(***************************************************************************)
register_dbus_path(conn, tr, path, path_id, dev_id, fallback, ok) ==
    IF ok /\ conn # "NULL" /\ ~IsBound(tr, path)
    THEN [ret |-> TRUE,
          tree |-> [tr EXCEPT ![path] =
                      [path_id |-> path_id, dev_id |-> dev_id,
                       path_data |-> UNINIT, fallback |-> fallback,
                       freed |-> FALSE]]]
    ELSE [ret |-> FALSE, tree |-> tr]

(***************************************************************************)
(* unregister_dbus_path: free the record of the path, then unbind it.  ok  *)
(* is the outcome of dbus_connection_unregister_object_path, which fails   *)
(* only for lack of memory: the record is freed first, so a failed unbind  *)
(* leaves the path bound to a freed record (whose content is no longer     *)
(* defined).                                                               *)
(***************************************************************************)
unregister_dbus_path(conn, tr, path, ok) ==
    LET freedTree == IF conn # "NULL" /\ IsBound(tr, path)
                     THEN [tr EXCEPT ![path].freed = TRUE,
                                     ![path].path_data = UNINIT]
                     ELSE tr
    IN IF ok /\ conn # "NULL"
       THEN [ret |-> TRUE, tree |-> [freedTree EXCEPT ![path] = NoEntry]]
       ELSE [ret |-> FALSE, tree |-> freedTree]

(***************************************************************************)
(* The part of the state the bus-facing functions read and write, passed   *)
(* from one call to the next inside a handler.                             *)
(***************************************************************************)
Here == [connection |-> connection, filterOn |-> filterOn, tree |-> tree,
         default_dev |-> default_dev]

(***************************************************************************)
(* dbus_bus_get(DBUS_BUS_SYSTEM): libdbus hands out its shared connection  *)
(* while that one is connected, opens a new one (with an empty object      *)
(* tree and no filter) when the bus can be reached, and returns NULL       *)
(* otherwise.  The result is stored in the static connection in any case.  *)
(***************************************************************************)
dbus_bus_get(s, bus) ==
    IF s.connection = "open" THEN [ok |-> TRUE, s |-> s]
    ELSE IF bus
    THEN [ok |-> TRUE,
          s |-> [s EXCEPT !.connection = "open", !.tree = EmptyTree,
                          !.filterOn = FALSE]]
    ELSE [ok |-> FALSE,
          s |-> [s EXCEPT !.connection = "NULL", !.tree = EmptyTree,
                          !.filterOn = FALSE]]

\* A variant of hcid_dbus_init that registers MANAGER_PATH as a fallback
\* too.
hcid_dbus_init_manager_fallback(s, bus, e) ==
    LET got == dbus_bus_get(s, bus)
        s1 == got.s
        r1 == register_dbus_path(s1.connection, s1.tree, DEVICE_PATH,
                                 DEVICE_ROOT_ID, INVALID_DEV_ID, TRUE,
                                 e # "device_root")
        r2 == register_dbus_path(s1.connection, r1.tree, MANAGER_PATH,
                                 MANAGER_ROOT_ID, INVALID_DEV_ID, TRUE,
                                 e # "manager_root")
    IN IF ~got.ok THEN [ret |-> FALSE, step |-> "bus_get", s |-> s1]
       ELSE IF e = "request_name"
       THEN [ret |-> FALSE, step |-> "request_name", s |-> s1]
       ELSE IF ~r1.ret
       THEN [ret |-> FALSE, step |-> "device_root", s |-> s1]
       ELSE IF ~r2.ret
       THEN [ret |-> FALSE, step |-> "manager_root",
             s |-> [s1 EXCEPT !.tree = r1.tree]]
       ELSE IF e = "add_filter"
       THEN [ret |-> FALSE, step |-> "add_filter",
             s |-> [s1 EXCEPT !.tree = r2.tree]]
       ELSE [ret |-> TRUE, step |-> "done",
             s |-> [s1 EXCEPT !.tree = r2.tree, !.filterOn = TRUE]]

(***************************************************************************)
(* hcid_dbus_init.  e names the first of its calls that fails, by lack of  *)
(* memory or by a bus error (dbus_bus_request_name, the two root           *)
(* registrations, dbus_connection_add_filter), or "none"; dbus_bus_get     *)
(* and a root path that is bound already fail by the state.  Every         *)
(* failure returns FALSE on the spot and undoes nothing.                   *)
(***************************************************************************)
InitEnv == {"request_name", "device_root", "manager_root", "add_filter", "none"}

hcid_dbus_init(s, bus, e) ==
    LET got == dbus_bus_get(s, bus)
        s1 == got.s
        r1 == register_dbus_path(s1.connection, s1.tree, DEVICE_PATH,
                                 DEVICE_ROOT_ID, INVALID_DEV_ID, TRUE,
                                 e # "device_root")
        r2 == register_dbus_path(s1.connection, r1.tree, MANAGER_PATH,
                                 MANAGER_ROOT_ID, INVALID_DEV_ID, FALSE,
                                 e # "manager_root")
    IN IF ~got.ok THEN [ret |-> FALSE, step |-> "bus_get", s |-> s1]
       ELSE IF e = "request_name"
       THEN [ret |-> FALSE, step |-> "request_name", s |-> s1]
       ELSE IF ~r1.ret
       THEN [ret |-> FALSE, step |-> "device_root", s |-> s1]
       ELSE IF ~r2.ret
       THEN [ret |-> FALSE, step |-> "manager_root",
             s |-> [s1 EXCEPT !.tree = r1.tree]]
       ELSE IF e = "add_filter"
       THEN [ret |-> FALSE, step |-> "add_filter",
             s |-> [s1 EXCEPT !.tree = r2.tree]]
       ELSE [ret |-> TRUE, step |-> "done",
             s |-> [s1 EXCEPT !.tree = r2.tree, !.filterOn = TRUE]]

(***************************************************************************)
(* hcid_dbus_register_device(id).  e.bind is the outcome of the namespace  *)
(* registration's allocations, e.q the outcome of the scan-enable query    *)
(* (hci_open_dev, hci_send_req, rp.status, rp.enable), e.getdata that of   *)
(* dbus_connection_get_object_path_data.  The record found at the path     *)
(* (the one just registered, or one bound there before) gets the scan      *)
(* value; the "device added" signal is sent whatever ret is.  For a path   *)
(* with no record libdbus returns TRUE with a NULL data pointer: the write *)
(* through it is an invalid access that ends the process (crash).          *)
(***************************************************************************)
QueryOutcomes ==
    {[r |-> x, enable |-> SCAN_DISABLED] : x \in {"openfail", "reqfail", "status"}}
        \cup {[r |-> "ok", enable |-> v] : v \in ScanValues}

RegEnv == [bind : BOOLEAN, q : QueryOutcomes, getdata : BOOLEAN]

\* The reconnect pass keeps no trace of why a query fell back or of a value
\* that was not stored, and a failed query leaves the state that a read of
\* page|inquiry leaves: the pass draws one outcome for each result.
RegEnvPass ==
    {e \in RegEnv : e.q.r = "ok" /\ (~e.getdata => e.q.enable = SCAN_DISABLED)}

\* rp.enable as hcid_dbus_register_device leaves it
ScanEnableRead(q) ==
    IF q.r = "ok" THEN q.enable ELSE SCAN_PAGE + SCAN_INQUIRY

\* A variant of hcid_dbus_register_device without the test default_dev < 0:
\* every successful registration takes the default.
hcid_dbus_register_device_taking_default(s, id, e) ==
    LET path == DevPath(id)
        r == s.connection # "NULL" /\ ~IsBound(s.tree, path) /\ e.bind
        found == e.getdata /\ s.connection # "NULL"
        rec == [path_id |-> DEVICE_PATH_ID, dev_id |-> id,
                path_data |-> IF found THEN ScanEnableRead(e.q) ELSE UNINIT,
                fallback |-> FALSE, freed |-> FALSE]
    IN [ret |-> r,
        crash |-> found /\ ~r /\ ~IsBound(s.tree, path),
        s |-> IF r THEN [s EXCEPT !.tree[path] = rec, !.default_dev = id]
              ELSE s]

hcid_dbus_register_device(s, id, e) ==
    LET path == DevPath(id)
        r == register_dbus_path(s.connection, s.tree, path, DEVICE_PATH_ID,
                                id, FALSE, e.bind)
        got == e.getdata /\ s.connection # "NULL"
        found == got /\ IsBound(r.tree, path) /\ ~r.tree[path].freed
        tree2 == IF found
                 THEN [r.tree EXCEPT ![path].path_data = ScanEnableRead(e.q)]
                 ELSE r.tree
    IN [ret |-> r.ret,
        crash |-> got /\ ~IsBound(r.tree, path),
        s |-> [s EXCEPT !.tree = tree2,
                        !.default_dev = IF r.ret /\ s.default_dev < 0
                                        THEN id ELSE s.default_dev]]

(***************************************************************************)
(* hcid_dbus_unregister_device(id).  ok is the outcome of the unbind,      *)
(* route the value of hci_get_route(NULL).                                 *)
(***************************************************************************)
hcid_dbus_unregister_device(s, id, ok, route) ==
    LET r == unregister_dbus_path(s.connection, s.tree, DevPath(id), ok)
    IN [ret |-> r.ret,
        s |-> [s EXCEPT !.tree = r.tree,
                        !.default_dev = IF r.ret /\ s.default_dev = id
                                        THEN route ELSE s.default_dev]]

(***************************************************************************)
(* What hcid_dbus_unregister_device(id) does on the bus, in the order of   *)
(* the code: the BLUEZ_MGR_DEV_REMOVED signal of MANAGER_PATH when sig     *)
(* (the message was allocated and dbus_connection_send took it), then      *)
(* unregister_dbus_path whatever became of the signal: the free of the     *)
(* record found at the path, and the unbind when ok.  libdbus refuses a    *)
(* NULL connection in each of the three calls.                             *)
(***************************************************************************)
unregister_device_effects(s, id, sig, ok) ==
    (IF sig /\ s.connection # "NULL" THEN <<"DEV_REMOVED">> ELSE <<>>)
    \o (IF s.connection # "NULL" /\ IsBound(s.tree, DevPath(id))
        THEN <<"free">> ELSE <<>>)
    \o (IF ok /\ s.connection # "NULL"
        THEN <<"unregister_object_path">> ELSE <<>>)

\* hci_get_route(NULL): the first controller that is up, or -1
Routes(devs) == devs \cup {NO_DEFAULT}

Store(s) ==
    /\ connection' = s.connection
    /\ filterOn' = s.filterOn
    /\ tree' = s.tree
    /\ default_dev' = s.default_dev

(***************************************************************************)
(* Actions.                                                                *)
(***************************************************************************)
\* hcid is running: every entry point below is called from its main loop
Running == started /\ ~crashed

Init ==
    /\ started = FALSE
    /\ crashed = FALSE
    /\ connection = "NULL"
    /\ busUp \in BOOLEAN
    /\ filterOn = FALSE
    /\ tree = EmptyTree
    /\ default_dev = NO_DEFAULT
    /\ kernelDevs = {}
    /\ timerArmed = FALSE
    /\ pinreq = <<>>
    /\ last = [op |-> "none"]

\* hcid's main calls hcid_dbus_init once; a failure is not fatal unless the
\* D-Bus PIN helper is configured
MainInit ==
    /\ ~started
    /\ ~crashed
    /\ \E e \in InitEnv :
          LET r == hcid_dbus_init(Here, busUp, e)
          IN /\ Store(r.s)
             /\ last' = [op |-> "init", ret |-> r.ret]
    /\ started' = TRUE
    /\ UNCHANGED <<crashed, busUp, kernelDevs, timerArmed, pinreq>>

\* a controller comes up: the kernel lists it and hcid registers it
DevUp(id) ==
    /\ Running
    /\ id \notin kernelDevs
    /\ kernelDevs' = kernelDevs \cup {id}
    /\ \E e \in RegEnv :
          LET r == hcid_dbus_register_device(Here, id, e)
          IN /\ Store(r.s)
             /\ crashed' = r.crash
             /\ last' = IF r.crash THEN [op |-> "crash"]
                        ELSE [op |-> "register", id |-> id, ret |-> r.ret,
                              fell |-> (e.q.r # "ok"), enable |-> e.q.enable]
    /\ UNCHANGED <<started, busUp, timerArmed, pinreq>>

\* a controller goes down: the kernel no longer lists it, hcid unregisters it
DevDown(id) ==
    /\ Running
    /\ id \in kernelDevs
    /\ kernelDevs' = kernelDevs \ {id}
    /\ \E sig \in BOOLEAN, ok \in BOOLEAN, route \in Routes(kernelDevs \ {id}) :
          LET r == hcid_dbus_unregister_device(Here, id, ok, route)
          IN /\ Store(r.s)
             /\ last' = [op |-> "unregister", id |-> id, ret |-> r.ret,
                         effects |-> unregister_device_effects(Here, id, sig, ok)]
    /\ UNCHANGED <<started, crashed, busUp, timerArmed, pinreq>>

\* the bus daemon goes away: the connection, if there is one, is no longer
\* connected; libdbus queues the local "Disconnected" signal
BusDown ==
    /\ Running
    /\ busUp
    /\ busUp' = FALSE
    /\ connection' = IF connection = "open" THEN "dead" ELSE connection
    /\ last' = [op |-> "bus"]
    /\ UNCHANGED <<started, crashed, filterOn, tree, default_dev, kernelDevs,
                   timerArmed, pinreq>>

\* the bus daemon is back
BusBack ==
    /\ Running
    /\ ~busUp
    /\ busUp' = TRUE
    /\ last' = [op |-> "bus"]
    /\ UNCHANGED <<started, crashed, connection, filterOn, tree, default_dev,
                   kernelDevs, timerArmed, pinreq>>

(***************************************************************************)
(* reconnect_timer_start: setitimer with it_value and it_interval of       *)
(* { tv_sec = 0, tv_usec = DBUS_RECONNECT_TIMER }.  A tv_usec above        *)
(* 999999 is not canonical: kernels that check it reject the call with     *)
(* EINVAL (the result is not looked at), older ones normalise it and arm   *)
(* the timer.  The set holds what the timer can be after the call.         *)
(***************************************************************************)
reconnect_timer_start(usec) ==
    IF usec <= MAX_CANONICAL_USEC THEN {TRUE} ELSE {TRUE, FALSE}

(***************************************************************************)
(* hci_dbus_signal_filter on "Disconnected" of the local interface:        *)
(* dispatch, close the connection, drop the reference, start the timer.    *)
(* The static connection keeps pointing to the released object.            *)
(***************************************************************************)
hci_dbus_signal_filter ==
    /\ Running
    /\ connection = "dead"
    /\ filterOn
    /\ connection' = "stale"
    /\ \E armed \in reconnect_timer_start(DBUS_RECONNECT_TIMER) :
          /\ timerArmed' = armed
          /\ last' = [op |-> "disconnected", armed |-> armed]
    /\ UNCHANGED <<started, crashed, busUp, filterOn, tree, default_dev, kernelDevs,
                   pinreq>>

(***************************************************************************)
(* reconnect_timer_handler.  After a successful hcid_dbus_init the timer   *)
(* is stopped (setitimer with a NULL value, which Linux takes as zero);    *)
(* then the HCI socket is opened and the device list read (enum is the     *)
(* first of these steps that fails, or "ok"); only then default_dev is     *)
(* reset and every listed controller registered, in the list's order.      *)
(* last.ok holds the controllers whose registration returned TRUE.         *)
(***************************************************************************)
EnumOutcomes == {"socket", "malloc", "ioctl", "ok"}

\* HCIGETDEVLIST walks the kernel's hci_dev_list, which hci_register_dev
\* keeps in id order: the list as a sequence of ascending ids
RECURSIVE DevList(_)
DevList(S) ==
    IF S = {} THEN <<>>
    ELSE LET m == CHOOSE x \in S : \A y \in S : x <= y
         IN <<m>> \o DevList(S \ {m})

RECURSIVE RegisterAll(_, _, _)
RegisterAll(s, order, env) ==
    IF order = <<>> THEN [s |-> s, ok |-> {}, crash |-> FALSE]
    ELSE LET r == hcid_dbus_register_device(s, Head(order), env[Head(order)])
             rest == RegisterAll(r.s, Tail(order), env)
         IN IF r.crash THEN [s |-> r.s, ok |-> {}, crash |-> TRUE]
            ELSE [s |-> rest.s, crash |-> rest.crash,
                  ok |-> IF r.ret THEN rest.ok \cup {Head(order)}
                         ELSE rest.ok]

reconnect_timer_handler ==
    /\ Running
    /\ timerArmed
    /\ \E e \in InitEnv :
          LET r == hcid_dbus_init(Here, busUp, e)
          IN IF ~r.ret
             THEN /\ Store(r.s)
                  /\ timerArmed' = TRUE
                  /\ crashed' = FALSE
                  /\ last' = [op |-> "timer", init |-> FALSE, enum |-> "none",
                              ok |-> {}]
             ELSE /\ timerArmed' = FALSE
                  /\ \E enum \in EnumOutcomes :
                        IF enum # "ok"
                        THEN /\ Store(r.s)
                             /\ crashed' = FALSE
                             /\ last' = [op |-> "timer", init |-> TRUE,
                                         enum |-> enum, ok |-> {}]
                        ELSE \E env \in [kernelDevs -> RegEnvPass] :
                                LET all == RegisterAll(
                                             [r.s EXCEPT !.default_dev = NO_DEFAULT],
                                             DevList(kernelDevs), env)
                                IN /\ Store(all.s)
                                   /\ crashed' = all.crash
                                   /\ last' =
                                        IF all.crash THEN [op |-> "crash"]
                                        ELSE [op |-> "timer", init |-> TRUE,
                                              enum |-> enum, ok |-> all.ok]
    /\ UNCHANGED <<started, busUp, kernelDevs, pinreq>>

(***************************************************************************)
(* The PIN correlator.  pinreq[i] is the i-th PIN-needed event: the        *)
(* controller and peer address of the request, whether a PinRequest call   *)
(* went to the agent, the HCI commands issued for it so far, and st:       *)
(* "pending" while a pending call with reply_handler_function as its       *)
(* notify function exists, "done" once the request has run to its end,     *)
(* "lost" when the request ended with no pending call and no command.      *)
(***************************************************************************)
PinReply(dev, bda, pin) ==
    [ocf |-> "PIN_CODE_REPLY", dev |-> dev, bdaddr |-> bda,
     pin_code |-> pin, pin_len |-> Len(pin)]

PinNegReply(dev, bda) ==
    [ocf |-> "PIN_CODE_NEG_REPLY", dev |-> dev, bdaddr |-> bda,
     pin_code |-> <<>>, pin_len |-> 0]

(***************************************************************************)
(* dbus_connection_send_with_reply on the static connection.  On a         *)
(* connected connection it queues the call and returns a pending call, or  *)
(* fails for lack of memory.  On a disconnected one it returns TRUE with   *)
(* a NULL pending call, which dbus_pending_call_set_notify then refuses.   *)
(* On the released connection the call reads freed memory: any of these.   *)
(***************************************************************************)
SendOutcomes(conn) ==
    IF conn = "open" THEN {"pending", "fail"}
    ELSE IF conn = "dead" THEN {"nopending", "fail"}
    ELSE {"pending", "nopending", "fail"}

(***************************************************************************)
(* hcid_dbus_request_pin(dev, ci): msg is the outcome of allocating the    *)
(* method call, send that of dbus_connection_send_with_reply; e is used    *)
(* by the hcid_dbus_init call made when connection is NULL.  (The          *)
(* unchecked malloc of the pin_request is taken to succeed.)               *)
(***************************************************************************)
hcid_dbus_request_pin(dev, bda) ==
    /\ Running
    /\ Len(pinreq) < MaxPinReq
    /\ \E e \in InitEnv, msg \in BOOLEAN :
          LET r == IF connection = "NULL"
                   THEN hcid_dbus_init(Here, busUp, e)
                   ELSE [ret |-> TRUE, step |-> "none", s |-> Here]
              failed == [dev |-> dev, bda |-> bda, st |-> "done",
                         agent |-> FALSE, cmds |-> <<PinNegReply(dev, bda)>>]
              note(out) == [op |-> "request_pin", conn |-> connection,
                            init |-> r.ret, out |-> out]
          IN /\ Store(r.s)
             /\ IF ~r.ret \/ ~msg
                THEN /\ pinreq' = Append(pinreq, failed)
                     /\ last' = note("failed")
                ELSE \E send \in SendOutcomes(r.s.connection) :
                        /\ pinreq' = Append(pinreq,
                              CASE send = "fail" -> failed
                                [] send = "pending" ->
                                     [dev |-> dev, bda |-> bda, st |-> "pending",
                                      agent |-> TRUE, cmds |-> <<>>]
                                [] send = "nopending" ->
                                     [dev |-> dev, bda |-> bda, st |-> "lost",
                                      agent |-> FALSE, cmds |-> <<>>])
                        /\ last' = note(send)
    /\ UNCHANGED <<started, crashed, busUp, kernelDevs, timerArmed>>

(***************************************************************************)
(* What the pending call completes with: an error message (an error from   *)
(* the agent, or the NoReply error libdbus makes up at the timeout or when *)
(* the connection goes away), or a method return whose first argument is   *)
(* a string or something else; or with no message at all                   *)
(* (dbus_pending_call_steal_reply yields NULL), the case the handler       *)
(* tests first.                                                            *)
(***************************************************************************)
PinStrings ==
    {[i \in 1 .. n |-> 1 + (i % 2)] : n \in {0, 4, PIN_CODE_SIZE, MaxPinLen}}

AgentReplies ==
    {[type |-> "error", arg |-> "string", pin |-> <<>>],
     [type |-> "return", arg |-> "other", pin |-> <<>>],
     [type |-> "none", arg |-> "none", pin |-> <<>>]}
        \cup {[type |-> "return", arg |-> "string", pin |-> p] : p \in PinStrings}

(***************************************************************************)
(* reply_handler_function: the commands it can issue for request req on    *)
(* message m.  pr.pin_code holds PIN_CODE_SIZE bytes and memcpy copies     *)
(* strlen(pin) of them: a longer PIN writes past pr.  The command then     *)
(* carries the first PIN_CODE_SIZE bytes with pin_len = strlen(pin), or    *)
(* the damaged stack ends the process before any command is sent.  With    *)
(* no message the handler goes to done: no command, the pending call is    *)
(* released.                                                               *)
(***************************************************************************)
reply_handler_function(req, m) ==
    IF m.type = "none" THEN {<<>>}
    ELSE IF m.type = "error" THEN {<<PinNegReply(req.dev, req.bda)>>}
    ELSE IF m.arg # "string" THEN {<<PinNegReply(req.dev, req.bda)>>}
    ELSE IF Len(m.pin) <= PIN_CODE_SIZE
    THEN {<<PinReply(req.dev, req.bda, m.pin)>>}
    ELSE {<<[PinReply(req.dev, req.bda, SubSeq(m.pin, 1, PIN_CODE_SIZE))
               EXCEPT !.pin_len = Len(m.pin) % 256]>>,
          <<>>}

\* the pending call of request i completes and libdbus calls its notify
\* function; the pending call is then released
PinCompleted(i) ==
    /\ Running
    /\ i \in DOMAIN pinreq
    /\ pinreq[i].st = "pending"
    /\ \E m \in AgentReplies :
          \E cmds \in reply_handler_function(pinreq[i], m) :
             /\ pinreq' = [pinreq EXCEPT ![i].cmds = pinreq[i].cmds \o cmds,
                                         ![i].st = IF cmds = <<>> THEN "lost"
                                                   ELSE "done"]
             /\ crashed' = (cmds = <<>> /\ m.type # "none")
             /\ last' = [op |-> "pin_reply", i |-> i, m |-> m]
    /\ UNCHANGED <<started, connection, busUp, filterOn, tree, default_dev,
                   kernelDevs, timerArmed>>

(***************************************************************************)
(* Error replies.  A code is named by its macro; its range is what the     *)
(* offset bits of the number select in bluez_dbus_error_to_str: the        *)
(* system range (BLUEZ_ESYSTEM_OFFSET plus an errno), the D-Bus range      *)
(* (BLUEZ_EDBUS_OFFSET), and the rest, the HCI status range.  The code     *)
(* "ESYSTEM" stands for BLUEZ_ESYSTEM_OFFSET + errno of a failed call,     *)
(* "BLUEZ_EDBUS_UNLISTED" and "HCI_STATUS_UNLISTED" for a number of their  *)
(* range that the range's table does not hold.                             *)
(***************************************************************************)
dbus_error_array ==
    <<[code |-> "BLUEZ_EDBUS_UNKNOWN_METHOD", str |-> "Method not found"],
      [code |-> "BLUEZ_EDBUS_WRONG_SIGNATURE", str |-> "Wrong method signature"],
      [code |-> "BLUEZ_EDBUS_WRONG_PARAM", str |-> "Invalid parameters"],
      [code |-> "BLUEZ_EDBUS_RECORD_NOT_FOUND", str |-> "No record found"],
      [code |-> "BLUEZ_EDBUS_NO_MEM", str |-> "No memory"],
      [code |-> "BLUEZ_EDBUS_CONN_NOT_FOUND", str |-> "Connection not found"],
      [code |-> "BLUEZ_EDBUS_UNKNOWN_PATH", str |-> "Unknown D-BUS path"],
      [code |-> "BLUEZ_EDBUS_NOT_IMPLEMENTED", str |-> "Method not implemented"]>>

hci_error_array ==
    <<[code |-> "HCI_UNKNOWN_COMMAND", str |-> "Unknown HCI Command"],
      [code |-> "HCI_NO_CONNECTION", str |-> "Unknown Connection Identifier"],
      [code |-> "HCI_HARDWARE_FAILURE", str |-> "Hardware Failure"],
      [code |-> "HCI_PAGE_TIMEOUT", str |-> "Page Timeout"],
      [code |-> "HCI_AUTHENTICATION_FAILURE", str |-> "Authentication Failure"],
      [code |-> "HCI_PIN_OR_KEY_MISSING", str |-> "PIN Missing"],
      [code |-> "HCI_MEMORY_FULL", str |-> "Memory Capacity Exceeded"],
      [code |-> "HCI_CONNECTION_TIMEOUT", str |-> "Connection Timeout"],
      [code |-> "HCI_MAX_NUMBER_OF_CONNECTIONS", str |-> "Connection Limit Exceeded"],
      [code |-> "HCI_MAX_NUMBER_OF_SCO_CONNECTIONS", str |-> "Synchronous Connection Limit To A Device Exceeded"],
      [code |-> "HCI_ACL_CONNECTION_EXISTS", str |-> "ACL Connection Already Exists"],
      [code |-> "HCI_COMMAND_DISALLOWED", str |-> "Command Disallowed"],
      [code |-> "HCI_REJECTED_LIMITED_RESOURCES", str |-> "Connection Rejected due to Limited Resources"],
      [code |-> "HCI_REJECTED_SECURITY", str |-> "Connection Rejected Due To Security Reasons"],
      [code |-> "HCI_REJECTED_PERSONAL", str |-> "Connection Rejected due to Unacceptable BD_ADDR"],
      [code |-> "HCI_HOST_TIMEOUT", str |-> "Connection Accept Timeout Exceeded"],
      [code |-> "HCI_UNSUPPORTED_FEATURE", str |-> "Unsupported Feature or Parameter Value"],
      [code |-> "HCI_INVALID_PARAMETERS", str |-> "Invalid HCI Command Parameters"],
      [code |-> "HCI_OE_USER_ENDED_CONNECTION", str |-> "Remote User Terminated Connection"],
      [code |-> "HCI_OE_LOW_RESOURCES", str |-> "Remote Device Terminated Connection due to Low Resources"],
      [code |-> "HCI_OE_POWER_OFF", str |-> "Remote Device Terminated Connection due to Power Off"],
      [code |-> "HCI_CONNECTION_TERMINATED", str |-> "Connection Terminated By Local Host"],
      [code |-> "HCI_REPEATED_ATTEMPTS", str |-> "Repeated Attempts"],
      [code |-> "HCI_PAIRING_NOT_ALLOWED", str |-> "Pairing Not Allowed"],
      [code |-> "HCI_UNKNOWN_LMP_PDU", str |-> "Unknown LMP PDU"],
      [code |-> "HCI_UNSUPPORTED_REMOTE_FEATURE", str |-> "Unsupported Remote Feature"],
      [code |-> "HCI_SCO_OFFSET_REJECTED", str |-> "SCO Offset Rejected"],
      [code |-> "HCI_SCO_INTERVAL_REJECTED", str |-> "SCO Interval Rejected"],
      [code |-> "HCI_AIR_MODE_REJECTED", str |-> "SCO Air Mode Rejected"],
      [code |-> "HCI_INVALID_LMP_PARAMETERS", str |-> "Invalid LMP Parameters"],
      [code |-> "HCI_UNSPECIFIED_ERROR", str |-> "Unspecified Error"],
      [code |-> "HCI_UNSUPPORTED_LMP_PARAMETER_VALUE", str |-> "Unsupported LMP Parameter Value"],
      [code |-> "HCI_ROLE_CHANGE_NOT_ALLOWED", str |-> "Role Change Not Allowed"],
      [code |-> "HCI_LMP_RESPONSE_TIMEOUT", str |-> "LMP Response Timeout"],
      [code |-> "HCI_LMP_ERROR_TRANSACTION_COLLISION", str |-> "LMP Error Transaction Collision"],
      [code |-> "HCI_LMP_PDU_NOT_ALLOWED", str |-> "LMP PDU Not Allowed"],
      [code |-> "HCI_ENCRYPTION_MODE_NOT_ACCEPTED", str |-> "Encryption Mode Not Acceptable"],
      [code |-> "HCI_UNIT_LINK_KEY_USED", str |-> "Link Key Can Not be Changed"],
      [code |-> "HCI_QOS_NOT_SUPPORTED", str |-> "Requested QoS Not Supported"],
      [code |-> "HCI_INSTANT_PASSED", str |-> "Instant Passed"],
      [code |-> "HCI_PAIRING_NOT_SUPPORTED", str |-> "Pairing With Unit Key Not Supported"],
      [code |-> "HCI_TRANSACTION_COLLISION", str |-> "Different Transaction Collision"],
      [code |-> "HCI_QOS_UNACCEPTABLE_PARAMETER", str |-> "QoS Unacceptable Parameter"],
      [code |-> "HCI_QOS_REJECTED", str |-> "QoS Rejected"],
      [code |-> "HCI_CLASSIFICATION_NOT_SUPPORTED", str |-> "Channel Classification Not Supported"],
      [code |-> "HCI_INSUFFICIENT_SECURITY", str |-> "Insufficient Security"],
      [code |-> "HCI_PARAMETER_OUT_OF_RANGE", str |-> "Parameter Out Of Mandatory Range"],
      [code |-> "HCI_ROLE_SWITCH_PENDING", str |-> "Role Switch Pending"],
      [code |-> "HCI_SLOT_VIOLATION", str |-> "Reserved Slot Violation"],
      [code |-> "HCI_ROLE_SWITCH_FAILED", str |-> "Role Switch Failed"]>>

SystemCodes == {"ESYSTEM", "BLUEZ_ESYSTEM_ENODEV"}
DbusCodes == {dbus_error_array[i].code : i \in DOMAIN dbus_error_array}
                 \cup {"BLUEZ_EDBUS_UNLISTED"}
HciCodes == {hci_error_array[i].code : i \in DOMAIN hci_error_array}
                \cup {"HCI_STATUS_UNLISTED"}
ErrorCodes == SystemCodes \cup DbusCodes \cup HciCodes

\* a null char pointer (no table holds this text)
NULL_STR == "NULL"

\* the for loop over a table that ends with { 0, NULL }: the text of the
\* first entry with the code
FirstStr(array, hits) ==
    IF hits = {} THEN NULL_STR
    ELSE array[CHOOSE i \in hits : \A j \in hits : i <= j].str

error_table_str(array, ecode) ==
    FirstStr(array, {i \in DOMAIN array : array[i].code = ecode})

bluez_dbus_error_to_str(ecode) ==
    IF ecode \in SystemCodes THEN "strerror"
    ELSE IF ecode \in DbusCodes THEN error_table_str(dbus_error_array, ecode)
    ELSE error_table_str(hci_error_array, ecode)

(***************************************************************************)
(* The manager services.  Replies are [kind, code, paths]: kind "return"   *)
(* with the paths it carries, kind "error" with its code, or kind "none"   *)
(* when the handler returns NULL and nothing is sent.                      *)
(***************************************************************************)
\* the fixed error name every error reply is created with
ERROR_INTERFACE == "ERROR_INTERFACE"

Return(paths) ==
    [kind |-> "return", name |-> "", text |-> "", code |-> "", paths |-> paths]
\* dbus_message_new_error(msg, ERROR_INTERFACE, error_msg) with the code
\* appended as its UINT32 argument
Failure(code) ==
    [kind |-> "error", name |-> ERROR_INTERFACE,
     text |-> bluez_dbus_error_to_str(code), code |-> code, paths |-> <<>>]
NoReply ==
    [kind |-> "none", name |-> "", text |-> "", code |-> "", paths |-> <<>>]

\* bluez_new_failure_msg: no message when the code has no text
\* a variant of bluez_new_failure_msg without the test of error_msg
bluez_new_failure_msg_unchecked(ecode) == Failure(ecode)

bluez_new_failure_msg(ecode) ==
    IF bluez_dbus_error_to_str(ecode) = NULL_STR THEN NoReply
    ELSE Failure(ecode)

RECURSIVE ListedPaths(_, _)
ListedPaths(list, info) ==
    IF list = <<>> THEN <<>>
    ELSE (IF Head(list) \in info THEN <<DevPath(Head(list))>> ELSE <<>>)
             \o ListedPaths(Tail(list), info)

(***************************************************************************)
(* handle_mgr_device_list_req: the reply is built from the kernel's        *)
(* device list, not from the namespace.  e.step is the first step that     *)
(* fails (the HCI socket, malloc, HCIGETDEVLIST, the allocation of the     *)
(* reply) or "ok"; e.info the controllers whose HCIGETDEVINFO succeeds,    *)
(* the others are skipped.                                                 *)
(***************************************************************************)
ListEnv(devs) ==
    {[step |-> x, info |-> {}] : x \in {"socket", "malloc", "ioctl", "reply"}}
        \cup {[step |-> "ok", info |-> i] : i \in SUBSET devs}

handle_mgr_device_list_req(devs, e) ==
    CASE e.step = "socket" -> Failure("ESYSTEM")
      [] e.step = "malloc" -> Failure("BLUEZ_EDBUS_NO_MEM")
      [] e.step = "ioctl" -> Failure("ESYSTEM")
      [] e.step = "reply" -> NoReply
      [] OTHER -> Return(ListedPaths(DevList(devs), e.info))

(***************************************************************************)
(* handle_mgr_default_device_req: the path of default_dev, or the ENODEV   *)
(* error when default_dev is negative; alloc is the outcome of allocating  *)
(* the method return.                                                      *)
(***************************************************************************)
handle_mgr_default_device_req(def, alloc) ==
    IF def < 0 THEN Failure("BLUEZ_ESYSTEM_ENODEV")
    ELSE IF ~alloc THEN NoReply
    ELSE Return(<<DevPath(def)>>)

\* a method call reaches the manager services over the connected connection
\* on which the manager root is bound
MgrCallable ==
    /\ Running
    /\ connection = "open"
    /\ IsBound(tree, MANAGER_PATH)

ListDevices ==
    /\ MgrCallable
    /\ \E e \in ListEnv(kernelDevs) :
          last' = [op |-> "ListDevices", info |-> e.info,
                   reply |-> handle_mgr_device_list_req(kernelDevs, e)]
    /\ UNCHANGED <<started, crashed, connection, busUp, filterOn, tree, default_dev,
                   kernelDevs, timerArmed, pinreq>>

GetDefaultDevice ==
    /\ MgrCallable
    /\ \E alloc \in BOOLEAN :
          last' = [op |-> "GetDefaultDevice",
                   reply |-> handle_mgr_default_device_req(default_dev, alloc)]
    /\ UNCHANGED <<started, crashed, connection, busUp, filterOn, tree, default_dev,
                   kernelDevs, timerArmed, pinreq>>

(***************************************************************************)
(* The message routers.  A service table is a sequence of entries          *)
(* [name, handler_func, signature], named by the macros and functions of   *)
(* the source; run maps a handler function to the message it returns for   *)
(* the call at hand (NoReply for NULL).  The result holds the handler      *)
(* result returned to libdbus, the handler functions called, in order, and *)
(* the messages handed to dbus_connection_send, in order.                  *)
(***************************************************************************)
dev_services ==
    <<[name |-> "DEV_GET_ADDRESS", handler_func |-> "handle_dev_get_address_req",
       signature |-> "DEV_GET_ADDRESS_SIGNATURE"],
      [name |-> "DEV_GET_ALIAS", handler_func |-> "handle_dev_get_alias_req",
       signature |-> "DEV_GET_ALIAS_SIGNATURE"],
      [name |-> "DEV_GET_COMPANY", handler_func |-> "handle_dev_get_company_req",
       signature |-> "DEV_GET_COMPANY_SIGNATURE"],
      [name |-> "DEV_GET_DISCOVERABLE_TO", handler_func |-> "handle_dev_get_discoverable_to_req",
       signature |-> "DEV_GET_DISCOVERABLE_TO_SIGNATURE"],
      [name |-> "DEV_GET_FEATURES", handler_func |-> "handle_dev_get_features_req",
       signature |-> "DEV_GET_FEATURES_SIGNATURE"],
      [name |-> "DEV_GET_MANUFACTURER", handler_func |-> "handle_dev_get_manufacturer_req",
       signature |-> "DEV_GET_MANUFACTURER_SIGNATURE"],
      [name |-> "DEV_GET_MODE", handler_func |-> "handle_dev_get_mode_req",
       signature |-> "DEV_GET_MODE_SIGNATURE"],
      [name |-> "DEV_GET_NAME", handler_func |-> "handle_dev_get_name_req",
       signature |-> "DEV_GET_NAME_SIGNATURE"],
      [name |-> "DEV_GET_REVISION", handler_func |-> "handle_dev_get_revision_req",
       signature |-> "DEV_GET_REVISION_SIGNATURE"],
      [name |-> "DEV_GET_VERSION", handler_func |-> "handle_dev_get_version_req",
       signature |-> "DEV_GET_VERSION_SIGNATURE"],
      [name |-> "DEV_IS_CONNECTABLE", handler_func |-> "handle_dev_is_connectable_req",
       signature |-> "DEV_IS_CONNECTABLE_SIGNATURE"],
      [name |-> "DEV_IS_DISCOVERABLE", handler_func |-> "handle_dev_is_discoverable_req",
       signature |-> "DEV_IS_DISCOVERABLE_SIGNATURE"],
      [name |-> "DEV_SET_ALIAS", handler_func |-> "handle_dev_set_alias_req",
       signature |-> "DEV_SET_ALIAS_SIGNATURE"],
      [name |-> "DEV_SET_CLASS", handler_func |-> "handle_dev_set_class_req",
       signature |-> "DEV_SET_CLASS_SIGNATURE"],
      [name |-> "DEV_SET_DISCOVERABLE_TO", handler_func |-> "handle_dev_set_discoverable_to_req",
       signature |-> "DEV_SET_DISCOVERABLE_TO_SIGNATURE"],
      [name |-> "DEV_SET_MODE", handler_func |-> "handle_dev_set_mode_req",
       signature |-> "DEV_SET_MODE_SIGNATURE"],
      [name |-> "DEV_SET_NAME", handler_func |-> "handle_dev_set_name_req",
       signature |-> "DEV_SET_NAME_SIGNATURE"],
      [name |-> "DEV_DISCOVER", handler_func |-> "handle_dev_discover_req",
       signature |-> "DEV_DISCOVER_SIGNATURE"],
      [name |-> "DEV_DISCOVER_CACHE", handler_func |-> "handle_dev_discover_cache_req",
       signature |-> "DEV_DISCOVER_CACHE_SIGNATURE"],
      [name |-> "DEV_DISCOVER_CANCEL", handler_func |-> "handle_dev_discover_cancel_req",
       signature |-> "DEV_DISCOVER_CANCEL_SIGNATURE"],
      [name |-> "DEV_DISCOVER_SERVICE", handler_func |-> "handle_dev_discover_service_req",
       signature |-> "DEV_DISCOVER_SERVICE_SIGNATURE"],
      [name |-> "DEV_LAST_SEEN", handler_func |-> "handle_dev_last_seen_req",
       signature |-> "DEV_LAST_SEEN_SIGNATURE"],
      [name |-> "DEV_LAST_USED", handler_func |-> "handle_dev_last_used_req",
       signature |-> "DEV_LAST_USED_SIGNATURE"],
      [name |-> "DEV_REMOTE_ALIAS", handler_func |-> "handle_dev_remote_alias_req",
       signature |-> "DEV_REMOTE_ALIAS_SIGNATURE"],
      [name |-> "DEV_REMOTE_NAME", handler_func |-> "handle_dev_remote_name_req",
       signature |-> "DEV_REMOTE_NAME_SIGNATURE"],
      [name |-> "DEV_REMOTE_VERSION", handler_func |-> "handle_dev_remote_version_req",
       signature |-> "DEV_REMOTE_VERSION_SIGNATURE"],
      [name |-> "DEV_CREATE_BONDING", handler_func |-> "handle_dev_create_bonding_req",
       signature |-> "DEV_CREATE_BONDING_SIGNATURE"],
      [name |-> "DEV_LIST_BONDINGS", handler_func |-> "handle_dev_list_bondings_req",
       signature |-> "DEV_LIST_BONDINGS_SIGNATURE"],
      [name |-> "DEV_HAS_BONDING_NAME", handler_func |-> "handle_dev_has_bonding_req",
       signature |-> "DEV_HAS_BONDING_SIGNATURE"],
      [name |-> "DEV_REMOVE_BONDING", handler_func |-> "handle_dev_remove_bonding_req",
       signature |-> "DEV_REMOVE_BONDING_SIGNATURE"],
      [name |-> "DEV_PIN_CODE_LENGTH", handler_func |-> "handle_dev_pin_code_length_req",
       signature |-> "DEV_PIN_CODE_LENGTH_SIGNATURE"],
      [name |-> "DEV_ENCRYPTION_KEY_SIZE", handler_func |-> "handle_dev_encryption_key_size_req",
       signature |-> "DEV_ENCRYPTION_KEY_SIZE_SIGNATURE"]>>

mgr_services ==
    <<[name |-> "MGR_DEVICE_LIST", handler_func |-> "handle_mgr_device_list_req",
       signature |-> "MGR_DEVICE_LIST_SIGNATURE"],
      [name |-> "MGR_DEFAULT_DEVICE", handler_func |-> "handle_mgr_default_device_req",
       signature |-> "MGR_DEFAULT_DEVICE_SIGNATURE"]>>

MANAGER_INTERFACE == "MANAGER_INTERFACE"
\* what dbus_message_get_interface returns for a call with no interface field
NULL_IFACE == "NULL"
\* error == 0
NO_ERROR == "0"

Sent(reply) == IF reply = NoReply THEN <<>> ELSE <<reply>>

\* the for loop of msg_func_device from entry i on: it ends at the first
\* entry whose name and signature match
RECURSIVE dev_lookup(_, _, _, _, _)
dev_lookup(handlers, i, method, signature, st) ==
    IF i > Len(handlers) THEN st
    ELSE IF handlers[i].name # method
    THEN dev_lookup(handlers, i + 1, method, signature, st)
    ELSE IF handlers[i].signature = signature
    THEN [ret |-> "HANDLED", error |-> NO_ERROR,
          invoked |-> Append(st.invoked, handlers[i].handler_func)]
    ELSE dev_lookup(handlers, i + 1, method, signature,
                    [st EXCEPT !.ret = "HANDLED",
                               !.error = "BLUEZ_EDBUS_WRONG_SIGNATURE"])

\* the code after the loop, shared by the two routers: an error of the
\* lookup is turned into a failure message, and the message at hand, if
\* there is one, is sent
SendReply(st, run) ==
    [ret |-> st.ret, invoked |-> st.invoked,
     sent |-> Sent(IF st.error # NO_ERROR THEN bluez_new_failure_msg(st.error)
                   ELSE run[st.invoked[Len(st.invoked)]]),
     crash |-> FALSE]

msg_func_device(handlers, data, method, signature, run) ==
    SendReply(IF data.path_id = DEVICE_ROOT_ID
              THEN [ret |-> "HANDLED", error |-> "BLUEZ_EDBUS_UNKNOWN_PATH",
                    invoked |-> <<>>]
              ELSE dev_lookup(handlers, 1, method, signature,
                              [ret |-> "NOT_YET_HANDLED",
                               error |-> "BLUEZ_EDBUS_UNKNOWN_METHOD",
                               invoked |-> <<>>]),
              run)

\* a variant of msg_func_manager's loop that passes over an entry with
\* another signature as it passes over one with another name
RECURSIVE mgr_lookup_by_name_and_signature(_, _, _, _, _)
mgr_lookup_by_name_and_signature(handlers, i, method, signature, st) ==
    IF i > Len(handlers) THEN st
    ELSE IF handlers[i].name # method \/ handlers[i].signature # signature
    THEN mgr_lookup_by_name_and_signature(handlers, i + 1, method, signature,
                                          st)
    ELSE mgr_lookup_by_name_and_signature(
             handlers, i + 1, method, signature,
             [ret |-> "HANDLED", error |-> NO_ERROR,
              invoked |-> Append(st.invoked, handlers[i].handler_func)])

\* the for loop of msg_func_manager from entry i on: it has no break and
\* goes on to the end of the table after a match
RECURSIVE mgr_lookup(_, _, _, _, _)
mgr_lookup(handlers, i, method, signature, st) ==
    IF i > Len(handlers) THEN st
    ELSE IF handlers[i].name # method
    THEN mgr_lookup(handlers, i + 1, method, signature, st)
    ELSE IF handlers[i].signature # signature
    THEN mgr_lookup(handlers, i + 1, method, signature,
                    [st EXCEPT !.ret = "HANDLED",
                               !.error = "BLUEZ_EDBUS_WRONG_SIGNATURE"])
    ELSE mgr_lookup(handlers, i + 1, method, signature,
                    [ret |-> "HANDLED", error |-> NO_ERROR,
                     invoked |-> Append(st.invoked, handlers[i].handler_func)])

\* strcmp(iface, MANAGER_INTERFACE) reads through a null pointer when the
\* call has no interface field
msg_func_manager(handlers, iface, method, signature, run) ==
    IF iface = NULL_IFACE
    THEN [ret |-> "NOT_YET_HANDLED", invoked |-> <<>>, sent |-> <<>>,
          crash |-> TRUE]
    ELSE IF iface # MANAGER_INTERFACE
    THEN [ret |-> "NOT_YET_HANDLED", invoked |-> <<>>, sent |-> <<>>,
          crash |-> FALSE]
    ELSE SendReply(mgr_lookup(handlers, 1, method, signature,
                              [ret |-> "NOT_YET_HANDLED",
                               error |-> "BLUEZ_EDBUS_UNKNOWN_METHOD",
                               invoked |-> <<>>]),
                   run)

(***************************************************************************)
(* Device services.  The mode bytes MODE_OFF, MODE_CONNECTABLE and         *)
(* MODE_DISCOVERABLE are three different values of dbus.h; MODE_RESERVED   *)
(* is the byte 0xff, which is none of them.  A handler's result holds the  *)
(* message it returns, whether it opened the HCI socket, and the HCI       *)
(* requests it issued, in order.                                           *)
(***************************************************************************)
MODE_OFF == "MODE_OFF"
MODE_CONNECTABLE == "MODE_CONNECTABLE"
MODE_DISCOVERABLE == "MODE_DISCOVERABLE"
MODE_RESERVED == "0xff"
ModeBytes == {MODE_OFF, MODE_CONNECTABLE, MODE_DISCOVERABLE, MODE_RESERVED}

\* a scan-enable byte with a reserved bit set
SCAN_RESERVED == 2 * (SCAN_PAGE + SCAN_INQUIRY)
\* the bytes a path_data can hold
ScanBytes == ScanValues \cup {SCAN_RESERVED}

\* the switch of handle_dev_get_mode_req
ScanModeOf(hci_mode) ==
    IF hci_mode = SCAN_DISABLED THEN MODE_OFF
    ELSE IF hci_mode = SCAN_PAGE THEN MODE_CONNECTABLE
    ELSE IF hci_mode = SCAN_PAGE + SCAN_INQUIRY THEN MODE_DISCOVERABLE
    ELSE MODE_RESERVED

\* the switch of handle_dev_set_mode_req; UNINIT stands for its default
\* branch, which sets no hci_mode
HciModeOf(scan_mode) ==
    IF scan_mode = MODE_OFF THEN SCAN_DISABLED
    ELSE IF scan_mode = MODE_CONNECTABLE THEN SCAN_PAGE
    ELSE IF scan_mode = MODE_DISCOVERABLE THEN SCAN_PAGE + SCAN_INQUIRY
    ELSE UNINIT

\* results of the HCI transport for one handler call: hci_open_dev,
\* hci_send_req, the status byte of the controller's answer, and the
\* allocation of the method return where the handler checks it
StatusSamples == {"OK", "HCI_COMMAND_DISALLOWED", "HCI_STATUS_UNLISTED"}
\* a step that is not reached has no outcome: it is written as a success
HciEnv ==
    {e \in [open : BOOLEAN, send : BOOLEAN, status : StatusSamples,
            alloc : BOOLEAN] :
        /\ ~e.open => e.send
        /\ ~e.send => e.status = "OK"
        /\ e.status # "OK" => e.alloc}

Handled(reply, opened, requests) ==
    [reply |-> reply, opened |-> opened, requests |-> requests]

\* a variant of handle_dev_get_mode_req that reports inquiry scan alone as
\* discoverable
handle_dev_get_mode_req_inquiry(hci_mode) ==
    Handled(Return(<<IF hci_mode = SCAN_INQUIRY THEN MODE_DISCOVERABLE
                     ELSE ScanModeOf(hci_mode)>>), FALSE, <<>>)

\* hci_mode is the byte read from the record's path_data
handle_dev_get_mode_req(hci_mode) ==
    Handled(Return(<<ScanModeOf(hci_mode)>>), FALSE, <<>>)

handle_dev_get_name_req(e) ==
    IF ~e.open THEN Handled(bluez_new_failure_msg("BLUEZ_ESYSTEM_ENODEV"),
                            TRUE, <<>>)
    ELSE LET rq == <<[ocf |-> "OCF_READ_LOCAL_NAME", cparam |-> UNINIT]>>
         IN IF ~e.send
            THEN Handled(bluez_new_failure_msg("ESYSTEM"), TRUE, rq)
            ELSE IF e.status # "OK"
            THEN Handled(bluez_new_failure_msg(e.status), TRUE, rq)
            ELSE IF ~e.alloc THEN Handled(NoReply, TRUE, rq)
            ELSE Handled(Return(<<"name">>), TRUE, rq)

\* a variant of handle_dev_set_mode_req that rejects an invalid mode only
\* after the write was issued
handle_dev_set_mode_req_late_check(current_mode, scan_mode, e) ==
    IF ~e.open
    THEN Handled(bluez_new_failure_msg("BLUEZ_ESYSTEM_ENODEV"), TRUE, <<>>)
    ELSE IF current_mode = HciModeOf(scan_mode)
    THEN Handled(Return(<<>>), TRUE, <<>>)
    ELSE IF ~e.send
    THEN Handled(bluez_new_failure_msg("ESYSTEM"), TRUE,
                 <<[ocf |-> "OCF_WRITE_SCAN_ENABLE",
                    cparam |-> HciModeOf(scan_mode)]>>)
    ELSE IF e.status # "OK"
    THEN Handled(bluez_new_failure_msg(e.status), TRUE,
                 <<[ocf |-> "OCF_WRITE_SCAN_ENABLE",
                    cparam |-> HciModeOf(scan_mode)]>>)
    ELSE IF HciModeOf(scan_mode) = UNINIT
    THEN Handled(bluez_new_failure_msg("BLUEZ_EDBUS_WRONG_PARAM"), TRUE,
                 <<[ocf |-> "OCF_WRITE_SCAN_ENABLE",
                    cparam |-> HciModeOf(scan_mode)]>>)
    ELSE Handled(Return(<<>>), TRUE,
                 <<[ocf |-> "OCF_WRITE_SCAN_ENABLE",
                    cparam |-> HciModeOf(scan_mode)]>>)

\* current_mode is the byte read from the record's path_data, scan_mode the
\* byte argument of the call; the record is not written
handle_dev_set_mode_req(current_mode, scan_mode, e) ==
    LET hci_mode == HciModeOf(scan_mode)
        rq == <<[ocf |-> "OCF_WRITE_SCAN_ENABLE", cparam |-> hci_mode]>>
    IN IF hci_mode = UNINIT
       THEN Handled(bluez_new_failure_msg("BLUEZ_EDBUS_WRONG_PARAM"), FALSE,
                    <<>>)
       ELSE IF ~e.open
       THEN Handled(bluez_new_failure_msg("BLUEZ_ESYSTEM_ENODEV"), TRUE, <<>>)
       ELSE IF current_mode = hci_mode THEN Handled(Return(<<>>), TRUE, <<>>)
       ELSE IF ~e.send
       THEN Handled(bluez_new_failure_msg("ESYSTEM"), TRUE, rq)
       ELSE IF e.status # "OK"
       THEN Handled(bluez_new_failure_msg(e.status), TRUE, rq)
       ELSE Handled(Return(<<>>), TRUE, rq)

\* the services that answer "not implemented" whatever the call holds
NotImplemented ==
    {"handle_dev_get_features_req", "handle_dev_get_alias_req",
     "handle_dev_get_discoverable_to_req", "handle_dev_is_connectable_req",
     "handle_dev_is_discoverable_req", "handle_dev_set_alias_req",
     "handle_dev_set_class_req", "handle_dev_set_discoverable_to_req",
     "handle_dev_discover_cache_req", "handle_dev_discover_service_req",
     "handle_dev_last_seen_req", "handle_dev_last_used_req",
     "handle_dev_remote_alias_req", "handle_dev_remote_version_req"}

handle_dev_not_implemented ==
    Handled(bluez_new_failure_msg("BLUEZ_EDBUS_NOT_IMPLEMENTED"), FALSE, <<>>)

\* the handler functions modelled here
DevHandlers ==
    NotImplemented \cup {"handle_dev_get_mode_req", "handle_dev_get_name_req",
                         "handle_dev_set_mode_req"}

\* handler(msg, data) for a handler function of dev_services: hci_mode is
\* the byte read from data's path_data, arg the byte argument of the call
DevHandle(handler_func, hci_mode, arg, e) ==
    IF handler_func = "handle_dev_get_mode_req"
    THEN handle_dev_get_mode_req(hci_mode)
    ELSE IF handler_func = "handle_dev_get_name_req"
    THEN handle_dev_get_name_req(e)
    ELSE IF handler_func = "handle_dev_set_mode_req"
    THEN handle_dev_set_mode_req(hci_mode, arg, e)
    ELSE handle_dev_not_implemented

(***************************************************************************)
(* Specifications.  Spec is the namespace, the registry and the            *)
(* connection life cycle; the only thing a PIN-needed event does to that   *)
(* state is the hcid_dbus_init call it makes when connection is NULL,      *)
(* which PinEventInit stands for.  SpecPin is the PIN correlator over the  *)
(* same life cycle; no operation on controllers reads or writes what the   *)
(* correlator uses.                                                        *)
(***************************************************************************)
PinEventInit ==
    /\ Running
    /\ connection = "NULL"
    /\ \E e \in InitEnv :
          LET r == hcid_dbus_init(Here, busUp, e)
          IN /\ Store(r.s)
             /\ last' = [op |-> "init", ret |-> r.ret]
    /\ UNCHANGED <<started, crashed, busUp, kernelDevs, timerArmed, pinreq>>

Lifecycle ==
    \/ MainInit
    \/ BusDown
    \/ BusBack
    \/ hci_dbus_signal_filter
    \/ reconnect_timer_handler

Next ==
    \/ Lifecycle
    \/ PinEventInit
    \/ \E id \in Devs : DevUp(id)
    \/ \E id \in Devs : DevDown(id)
    \/ ListDevices
    \/ GetDefaultDevice

Spec == Init /\ [][Next]_vars

NextPin ==
    \/ Lifecycle
    \/ \E dev \in Devs, bda \in Addrs : hcid_dbus_request_pin(dev, bda)
    \/ \E i \in 1 .. MaxPinReq : PinCompleted(i)

SpecPin == Init /\ [][NextPin]_vars

\* libdbus completes every pending call: with the reply, with the error it
\* makes up when TIMEOUT (30 s) has passed, or when the connection goes
\* away; the main loop then runs the notify function.
SpecPinFair ==
    SpecPin /\ \A i \in 1 .. MaxPinReq : WF_vars(PinCompleted(i))

(***************************************************************************)
(* hcid_dbus_exit.  e.list is the outcome of                               *)
(* dbus_connection_list_registered(connection, DEVICE_PATH), which fails   *)
(* for lack of memory and otherwise yields the children of DEVICE_PATH in  *)
(* the order of the object tree; e.unbind[p] is the outcome of the unbind  *)
(* of path p.  A failed listing skips the children.  The result of         *)
(* unregister_dbus_path is looked at nowhere.  calls lists the calls made  *)
(* on the connection in the order of the code.                             *)
(***************************************************************************)
ExitEnv == [list : BOOLEAN, unbind : [Paths -> BOOLEAN]]

Children(tr) == DevList({d \in Devs : IsBound(tr, DevPath(d))})

RECURSIVE UnregisterAll(_, _, _, _)
UnregisterAll(conn, tr, order, unbind) ==
    IF order = <<>> THEN [tree |-> tr, calls |-> <<>>]
    ELSE LET r == unregister_dbus_path(conn, tr, Head(order), unbind[Head(order)])
             rest == UnregisterAll(conn, r.tree, Tail(order), unbind)
         IN [tree |-> rest.tree,
             calls |-> <<[call |-> "unregister_dbus_path", path |-> Head(order),
                          ret |-> r.ret]>> \o rest.calls]

PathsOf(ids) == [i \in DOMAIN ids |-> DevPath(ids[i])]

hcid_dbus_exit(s, e) ==
    IF s.connection = "NULL" THEN [s |-> s, calls |-> <<>>]
    ELSE LET order == (IF e.list THEN PathsOf(Children(s.tree)) ELSE <<>>)
                         \o <<DEVICE_PATH, MANAGER_PATH>>
             all == UnregisterAll(s.connection, s.tree, order, e.unbind)
         IN [s |-> [s EXCEPT !.tree = all.tree,
                             !.connection = IF s.connection = "open"
                                            THEN "dead" ELSE s.connection],
             calls |-> all.calls \o <<[call |-> "dbus_connection_close",
                                       path |-> <<>>, ret |-> TRUE]>>]

(***************************************************************************)
(* hcid's main calls hcid_dbus_exit when it leaves its loop, and the       *)
(* process ends: last keeps what the call did and the object tree it left, *)
(* and the state is that of a hcid that has not started yet.  On the       *)
(* released connection every call of hcid_dbus_exit reads freed memory:    *)
(* the process runs on as if the object were there, or is ended.           *)
(***************************************************************************)
Exit ==
    /\ Running
    /\ \E e \in {x \in ExitEnv : \A p \in Paths : ~IsBound(tree, p) => x.unbind[p]},
          crash \in {FALSE, connection = "stale"} :
          LET r == hcid_dbus_exit(Here, e)
          IN /\ crashed' = crash
             /\ started' = crash
             /\ last' = IF crash THEN [op |-> "crash"]
                        ELSE [op |-> "exit", conn |-> connection,
                              bound |-> {p \in Paths : IsBound(tree, p)},
                              calls |-> r.calls, tree |-> r.s.tree]
    /\ connection' = "NULL"
    /\ filterOn' = FALSE
    /\ tree' = EmptyTree
    /\ default_dev' = NO_DEFAULT
    /\ kernelDevs' = {}
    /\ timerArmed' = FALSE
    /\ pinreq' = <<>>
    /\ UNCHANGED busUp

NextExit ==
    \/ Lifecycle
    \/ \E id \in Devs : DevUp(id)
    \/ \E id \in Devs : DevDown(id)
    \/ Exit

SpecExit == Init /\ [][NextExit]_vars

(***************************************************************************)
(* The reconnect loop with its scheduling.  The main loop dispatches the   *)
(* queued Disconnected signal to the filter; an armed ITIMER_REAL keeps    *)
(* delivering SIGALRM every DBUS_RECONNECT_TIMER; and an attempt that      *)
(* could succeed again and again does succeed at some point (no failure    *)
(* of memory or of the bus daemon lasts for ever).                         *)
(***************************************************************************)
NextReconnect ==
    \/ Lifecycle
    \/ \E id \in Devs : DevUp(id)
    \/ \E id \in Devs : DevDown(id)

SpecReconnect ==
    /\ Init /\ [][NextReconnect]_vars
    /\ WF_vars(hci_dbus_signal_filter)
    /\ WF_vars(reconnect_timer_handler)
    /\ SF_vars(reconnect_timer_handler /\ last'.op = "timer" /\ last'.init)

(***************************************************************************)
(* The reconnect timer is ITIMER_REAL with reconnect_timer_handler         *)
(* installed by sigaction as the handler of SIGALRM: the kernel runs it    *)
(* when the timer expires, between any two instructions of whatever hcid   *)
(* is executing, and the interrupted function goes on when it returns.     *)
(* No function of the file blocks the signal.                              *)
(*                                                                         *)
(* reconnect_timer_handler_on is the handler as a function of the state    *)
(* it finds: devs are the controllers HCIGETDEVLIST reports, e, enum and   *)
(* env the outcomes of hcid_dbus_init, of the enumeration and of the       *)
(* registrations, as in the action reconnect_timer_handler.                *)
(***************************************************************************)
reconnect_timer_handler_on(s, devs, bus, e, enum, env) ==
    LET r == hcid_dbus_init(s, bus, e)
        all == RegisterAll([r.s EXCEPT !.default_dev = NO_DEFAULT],
                           DevList(devs), env)
    IN IF ~r.ret THEN [s |-> r.s, init |-> FALSE, crash |-> FALSE]
       ELSE IF enum # "ok" THEN [s |-> r.s, init |-> TRUE, crash |-> FALSE]
       ELSE [s |-> all.s, init |-> TRUE, crash |-> all.crash]

(***************************************************************************)
(* hcid_dbus_register_device(id) with SIGALRM delivered inside it: the     *)
(* handler runs at point at, either after register_dbus_path returned      *)
(* or after the test `ret && default_dev < 0` and before the store to      *)
(* default_dev.  The function reads connection and default_dev again       *)
(* after the handler, and keeps ret and the result of the test.            *)
(***************************************************************************)
hcid_dbus_register_device_signalled(s, id, e, at, devs, bus, ie, env) ==
    LET path == DevPath(id)
        \* SIGALRM at this point, or not
        signal(x, now) ==
            IF now
            THEN reconnect_timer_handler_on(x, devs, bus, ie, "ok", env)
            ELSE [s |-> x, init |-> FALSE, crash |-> FALSE]
        \* if (ret && default_dev < 0) default_dev = id, the test made on
        \* s3 and the store on what the handler left
        store(r, h1, s3, null, h2) ==
            [ret |-> r.ret,
             crash |-> h1.crash \/ h2.crash \/ null,
             init |-> h1.init \/ h2.init,
             s |-> [h2.s EXCEPT !.default_dev =
                       IF r.ret /\ s3.default_dev < 0 THEN id ELSE @]]
        \* the lookup and pdata->path_data = rp.enable on the connection
        \* and the tree the handler left
        lookup(r, h1) ==
            LET got == e.getdata /\ h1.s.connection # "NULL"
                bound == IsBound(h1.s.tree, path)
                s3 == IF got /\ bound /\ ~h1.s.tree[path].freed
                      THEN [h1.s EXCEPT !.tree[path].path_data =
                                            ScanEnableRead(e.q)]
                      ELSE h1.s
            IN store(r, h1, s3, got /\ ~bound, signal(s3, at = "after_test"))
        registered(r) ==
            lookup(r, signal([s EXCEPT !.tree = r.tree], at = "after_register"))
    IN registered(register_dbus_path(s.connection, s.tree, path,
                                     DEVICE_PATH_ID, id, FALSE, e.bind))

(***************************************************************************)
(* A controller comes up while the reconnect timer is armed, and the timer *)
(* expires inside hcid_dbus_register_device.  The outcomes drawn: the      *)
(* query and the lookup of the registration succeed, the handler's         *)
(* enumeration succeeds and its registrations find their records.  seen    *)
(* is what the caller and a later reader of the state can see of the       *)
(* interleaved execution, serial the same for the two executions in which  *)
(* the handler runs before or after the function.                          *)
(***************************************************************************)
DevUpSignalled(id) ==
    /\ Running
    /\ timerArmed
    /\ id \notin kernelDevs
    /\ kernelDevs' = kernelDevs \cup {id}
    /\ \E e \in {x \in RegEnv : x.q.r = "ok" /\ x.getdata /\ x.q.enable = SCAN_PAGE},
          at \in {"after_register", "after_test"}, ie \in InitEnv,
          env \in [kernelDevs \cup {id} ->
                      {x \in RegEnvPass : x.bind /\ x.getdata /\ x.q.enable = SCAN_PAGE}] :
          LET Seen(ret, s) == [ret |-> ret, connection |-> s.connection,
                               tree |-> s.tree, default_dev |-> s.default_dev]
              handler(x) == reconnect_timer_handler_on(x, kernelDevs \cup {id},
                                                       busUp, ie, "ok", env)
              then(first, second) == Seen(first.ret, second.s)
              outcome(r, before, alone) ==
                  /\ Store(r.s)
                  /\ crashed' = r.crash
                  /\ timerArmed' = ~r.init
                  /\ last' = IF r.crash THEN [op |-> "crash"]
                             ELSE [op |-> "register_signalled", id |-> id,
                                   at |-> at, seen |-> Seen(r.ret, r.s),
                                   serial |-> {then(before, before),
                                               then(alone, handler(alone.s))}]
          IN outcome(hcid_dbus_register_device_signalled(
                         Here, id, e, at, kernelDevs \cup {id}, busUp, ie, env),
                     hcid_dbus_register_device(handler(Here).s, id, e),
                     hcid_dbus_register_device(Here, id, e))
    /\ UNCHANGED <<started, busUp, pinreq>>

NextSignal ==
    \/ Lifecycle
    \/ \E id \in Devs : DevUp(id)
    \/ \E id \in Devs : DevDown(id)
    \/ \E id \in Devs : DevUpSignalled(id)

SpecSignal == Init /\ [][NextSignal]_vars

(***************************************************************************)
(* Calls to a controller's path.  libdbus hands a call to the handler      *)
(* bound to the call's path and, when there is none or when that one       *)
(* returns NOT_YET_HANDLED, to the fallback handler bound above it, each    *)
(* with the record given at registration.                                  *)
(***************************************************************************)
\* the methods and signatures the calls of the model carry: the two mode
\* services of dev_services and a method that no entry names
CalledMethods == {"DEV_GET_MODE", "DEV_SET_MODE", "DEV_UNKNOWN"}
OtherSignature == "OTHER_SIGNATURE"
\* the services that read the record's path_data
ReadsPathData == {"DEV_GET_MODE", "DEV_SET_MODE"}
SignatureOf(method) ==
    dev_services[CHOOSE i \in DOMAIN dev_services :
                    dev_services[i].name = method].signature
OkEnv == [open |-> TRUE, send |-> TRUE, status |-> "OK", alloc |-> TRUE]
\* the calls: [method, signature, arg, e] with the byte argument of the
\* call and the transport outcomes e of its handler.  What the call does
\* not look at has one value: no handler is called for an unknown method
\* or another signature, GetMode has no argument and does not use the
\* transport, SetMode allocates nothing that it checks.
Calls ==
    {[method |-> m, signature |-> OtherSignature, arg |-> MODE_OFF,
      e |-> OkEnv] : m \in CalledMethods}
        \cup {[method |-> "DEV_GET_MODE",
               signature |-> SignatureOf("DEV_GET_MODE"), arg |-> MODE_OFF,
               e |-> OkEnv]}
        \cup {[method |-> "DEV_SET_MODE",
               signature |-> SignatureOf("DEV_SET_MODE"), arg |-> a,
               e |-> x] : a \in ModeBytes, x \in {y \in HciEnv : y.alloc}}

\* the records libdbus passes to msg_func_device for a call to the path, in
\* the order of the calls
Handlers(tr, path) ==
    (IF IsBound(tr, path) THEN <<tr[path]>> ELSE <<>>)
        \o (IF IsBound(tr, DEVICE_PATH) /\ tr[DEVICE_PATH].fallback
            THEN <<tr[DEVICE_PATH]>> ELSE <<>>)

\* the bytes a read of the record's path_data can yield: the byte stored,
\* any byte for memory that was never written or was freed
PathDataRead(data) ==
    IF data.path_data = UNINIT \/ data.freed THEN ScanBytes
    ELSE {data.path_data}

\* the byte the call's handler reads from the record: only the two mode
\* services read path_data
ReadBytes(data, c) ==
    IF /\ data.path_id = DEVICE_PATH_ID
       /\ c.method \in ReadsPathData
       /\ c.signature # OtherSignature
    THEN PathDataRead(data)
    ELSE {SCAN_DISABLED}

\* the handler calls of one dispatch: each record's msg_func_device result
\* until one is not NOT_YET_HANDLED
RECURSIVE Dispatch(_, _, _)
RECURSIVE DispatchOn(_, _, _, _)
DispatchOn(out, records, c, hci_mode) ==
    IF out.ret = "NOT_YET_HANDLED"
    THEN <<out>> \o Dispatch(Tail(records), c, hci_mode)
    ELSE <<out>>

Dispatch(records, c, hci_mode) ==
    IF records = <<>> THEN <<>>
    ELSE DispatchOn(msg_func_device(dev_services, Head(records), c.method,
                                    c.signature,
                                    [h \in DevHandlers |->
                                        DevHandle(h, hci_mode, c.arg,
                                                  c.e).reply]),
                    records, c, hci_mode)

RECURSIVE Flatten(_, _)
Flatten(outs, field) ==
    IF outs = <<>> THEN <<>>
    ELSE Head(outs)[field] \o Flatten(Tail(outs), field)

\* a method call to the path of controller id arrives on the connection.  A
\* record that was freed is read through a dangling pointer: the process
\* ends, or goes on with what the memory holds.
\* what the handler called by the dispatch did, if one was called
CallHandled(invoked, c, hci_mode) ==
    IF invoked = <<>> THEN Handled(NoReply, FALSE, <<>>)
    ELSE DevHandle(invoked[1], hci_mode, c.arg, c.e)

CallRecord(id, c, data, outs, h) ==
    [op |-> "call", id |-> id, method |-> c.method,
     signature |-> c.signature, arg |-> c.arg, path_id |-> data.path_id,
     freed |-> data.freed, path_data |-> data.path_data,
     ret |-> outs[Len(outs)].ret, invoked |-> Flatten(outs, "invoked"),
     sent |-> Flatten(outs, "sent"), opened |-> h.opened,
     openfail |-> h.opened /\ ~c.e.open, requests |-> h.requests]

CallOutcome(id, c, data, outs, hci_mode) ==
    CallRecord(id, c, data, outs,
               CallHandled(Flatten(outs, "invoked"), c, hci_mode))

DeviceCall(id) ==
    /\ Running
    /\ connection = "open"
    /\ Handlers(tree, DevPath(id)) # <<>>
    /\ \E c \in Calls, records \in {Handlers(tree, DevPath(id))} :
       \E hci_mode \in ReadBytes(Head(records), c),
          survives \in IF Head(records).freed THEN BOOLEAN ELSE {TRUE} :
          /\ crashed' = ~survives
          /\ last' = IF ~survives THEN [op |-> "crash"]
                     ELSE CallOutcome(id, c, Head(records),
                                      Dispatch(records, c, hci_mode),
                                      hci_mode)
    /\ UNCHANGED <<started, connection, busUp, filterOn, tree, default_dev,
                   kernelDevs, timerArmed, pinreq>>

(***************************************************************************)
(* hcid_dbus_setscan_enable_complete: the controller completed a write of  *)
(* its scan enable.  e.q is the outcome of the query that follows (a       *)
(* controller that hci_devid does not find ends the function like a failed *)
(* query), e.getdata that of dbus_connection_get_object_path_data.  The    *)
(* byte read is stored in the record bound to the controller's path; for a *)
(* path with no record the store goes through a NULL pointer.              *)
(***************************************************************************)
hcid_dbus_setscan_enable_complete(s, id, e) ==
    LET path == DevPath(id)
        got == e.q.r = "ok" /\ e.getdata /\ s.connection # "NULL"
        found == got /\ IsBound(s.tree, path) /\ ~s.tree[path].freed
    IN [crash |-> got /\ ~IsBound(s.tree, path),
        stored |-> found,
        s |-> IF found THEN [s EXCEPT !.tree[path].path_data = e.q.enable]
              ELSE s]

SetScanEnableComplete(id) ==
    /\ Running
    /\ id \in kernelDevs
    /\ \E e \in RegEnv :
          LET r == hcid_dbus_setscan_enable_complete(Here, id, e)
          IN /\ Store(r.s)
             /\ crashed' = r.crash
             /\ last' = IF r.crash THEN [op |-> "crash"]
                        ELSE [op |-> "setscan_complete", id |-> id,
                              stored |-> r.stored]
    /\ UNCHANGED <<started, busUp, kernelDevs, timerArmed, pinreq>>

\* SpecCall is the namespace with the calls to the controllers' paths
NextCall ==
    \/ MainInit
    \/ \E id \in Devs : DevUp(id)
    \/ \E id \in Devs : DevDown(id)
    \/ \E id \in Devs : DeviceCall(id)
    \/ \E id \in Devs : SetScanEnableComplete(id)

SpecCall == Init /\ [][NextCall]_vars

(***************************************************************************)
(* The routers, the handlers and the failure messages as functions of      *)
(* their inputs: each action applies one of them to inputs drawn from      *)
(* bounded sets and records the result in last.  A behaviour holds one     *)
(* application.                                                            *)
(***************************************************************************)
Unapplied == last.op = "none"

\* service tables of at most MaxTable entries over two method names and two
\* signatures, in every order and with every repetition; the handler
\* function of an entry is named by the entry's position
EntryNames == {"METHOD_A", "METHOD_B"}
EntrySignatures == {"SIGNATURE_X", "SIGNATURE_Y"}
TableOf(f) ==
    [i \in DOMAIN f |-> [name |-> f[i][1], handler_func |-> i,
                         signature |-> f[i][2]]]
Tables ==
    UNION {{TableOf(f) : f \in [1 .. n -> EntryNames \X EntrySignatures]} :
              n \in 0 .. MaxTable}

\* the methods a call names: those of the tables and one that no table holds
RoutedMethods == EntryNames \cup {"METHOD_NONE"}

\* a handler function returns a message of its own, or NULL
RunOf(ok) == [i \in DOMAIN ok |-> IF ok[i] THEN Return(<<i>>) ELSE NoReply]

\* the records of a controller's path and of the device root
DeviceRecord(id, path_data) ==
    [path_id |-> DEVICE_PATH_ID, dev_id |-> id, path_data |-> path_data,
     fallback |-> FALSE, freed |-> FALSE]
RootRecord ==
    [path_id |-> DEVICE_ROOT_ID, dev_id |-> INVALID_DEV_ID,
     path_data |-> UNINIT, fallback |-> TRUE, freed |-> FALSE]

RouteDevice ==
    /\ Unapplied
    /\ \E handlers \in Tables, data \in {DeviceRecord(0, SCAN_DISABLED),
                                        RootRecord},
          method \in RoutedMethods, signature \in EntrySignatures :
       \E ok \in [DOMAIN handlers -> BOOLEAN] :
          last' = [op |-> "msg_func_device", handlers |-> handlers,
                   path_id |-> data.path_id, method |-> method,
                   signature |-> signature, ok |-> ok,
                   out |-> msg_func_device(handlers, data, method,
                                           signature, RunOf(ok))]
    /\ UNCHANGED <<started, crashed, connection, busUp, filterOn, tree,
                   default_dev, kernelDevs, timerArmed, pinreq>>

\* the interface of a call to the manager path
Interfaces == {MANAGER_INTERFACE, "DEVICE_INTERFACE", NULL_IFACE}

RouteManager ==
    /\ Unapplied
    /\ \E handlers \in Tables, iface \in Interfaces,
          method \in RoutedMethods, signature \in EntrySignatures :
       \E ok \in [DOMAIN handlers -> BOOLEAN] :
          last' = [op |-> "msg_func_manager", handlers |-> handlers,
                   iface |-> iface, method |-> method,
                   signature |-> signature, ok |-> ok,
                   out |-> msg_func_manager(handlers, iface, method,
                                            signature, RunOf(ok))]
    /\ UNCHANGED <<started, crashed, connection, busUp, filterOn, tree,
                   default_dev, kernelDevs, timerArmed, pinreq>>

\* the calls served with dev_services: every service whose handler is
\* modelled, with its signature, every mode byte and every transport
\* outcome
ServedCalls ==
    {[method |-> dev_services[i].name,
      signature |-> dev_services[i].signature, arg |-> a, e |-> x] :
        i \in {j \in DOMAIN dev_services :
                  dev_services[j].handler_func \in DevHandlers},
        a \in ModeBytes, x \in HciEnv}

ServeRecord(c, data, out, h) ==
    [op |-> "serve", method |-> c.method, arg |-> c.arg,
     path_data |-> data.path_data, ret |-> out.ret,
     invoked |-> out.invoked, sent |-> out.sent, opened |-> h.opened,
     requests |-> h.requests, send |-> c.e.send, status |-> c.e.status,
     alloc |-> c.e.alloc]

ServeOutcome(c, data, out) ==
    ServeRecord(c, data, out, CallHandled(out.invoked, c, data.path_data))

\* msg_func_device with dev_services and the record of a controller's path
ServeDevice ==
    /\ Unapplied
    /\ \E c \in ServedCalls, b \in ScanBytes :
          last' = ServeOutcome(c, DeviceRecord(0, b),
                               Dispatch(<<DeviceRecord(0, b)>>, c, b)[1])
    /\ UNCHANGED <<started, crashed, connection, busUp, filterOn, tree,
                   default_dev, kernelDevs, timerArmed, pinreq>>

\* bluez_new_failure_msg for every error code
BuildFailure ==
    /\ Unapplied
    /\ \E ecode \in ErrorCodes :
          last' = [op |-> "bluez_new_failure_msg", ecode |-> ecode,
                   error_msg |-> bluez_dbus_error_to_str(ecode),
                   reply |-> bluez_new_failure_msg(ecode)]
    /\ UNCHANGED <<started, crashed, connection, busUp, filterOn, tree,
                   default_dev, kernelDevs, timerArmed, pinreq>>

(***************************************************************************)
(* handle_dev_remote_name_req(peer) on the record of controller id.        *)
(* e.devinfo is the outcome of hci_devinfo, e.cached tells whether the     *)
(* names file of the controller's address holds a name for peer, e.sigsend *)
(* is the outcome of dbus_connection_send for the signal, e.hci the        *)
(* outcome of the transport.  The result holds the message returned, the   *)
(* HCI requests issued and the signals handed to dbus_connection_send.     *)
(***************************************************************************)
RemoteNameEnv ==
    [devinfo : BOOLEAN, cached : BOOLEAN, sigsend : BOOLEAN,
     hci : {x \in HciEnv : x.alloc}]

Served(reply, requests, signals) ==
    [reply |-> reply, requests |-> requests, signals |-> signals]

handle_dev_remote_name_req(id, peer, e) ==
    IF ~e.devinfo
    THEN Served(bluez_new_failure_msg("BLUEZ_ESYSTEM_ENODEV"), <<>>, <<>>)
    ELSE IF e.cached
    THEN Served(Return(<<>>), <<>>,
                IF e.sigsend
                THEN <<[path |-> DevPath(id), name |-> "DEV_SIG_REMOTE_NAME",
                        args |-> <<peer, "name">>]>>
                ELSE <<>>)
    ELSE IF ~e.hci.open
    THEN Served(bluez_new_failure_msg("ESYSTEM"), <<>>, <<>>)
    ELSE IF ~e.hci.send
    THEN Served(bluez_new_failure_msg("ESYSTEM"),
                <<[ocf |-> "OCF_REMOTE_NAME_REQ", cparam |-> peer]>>, <<>>)
    ELSE IF e.hci.status # "OK"
    THEN Served(bluez_new_failure_msg(e.hci.status),
                <<[ocf |-> "OCF_REMOTE_NAME_REQ", cparam |-> peer]>>, <<>>)
    ELSE Served(Return(<<>>),
                <<[ocf |-> "OCF_REMOTE_NAME_REQ", cparam |-> peer]>>, <<>>)

RemoteName ==
    /\ Unapplied
    /\ \E id \in Devs, peer \in Addrs, e \in RemoteNameEnv :
          last' = [op |-> "handle_dev_remote_name_req", id |-> id,
                   peer |-> peer, e |-> e,
                   out |-> handle_dev_remote_name_req(id, peer, e)]
    /\ UNCHANGED <<started, crashed, connection, busUp, filterOn, tree,
                   default_dev, kernelDevs, timerArmed, pinreq>>

(***************************************************************************)
(* The getters of a controller's address, version, revision, manufacturer  *)
(* and company.  Each calls get_device_...(dev_id, str, sizeof(str)),      *)
(* which is defined outside this file, and does not look at its result:    *)
(* got tells whether the call wrote the string.  When it did not, the      *)
(* reply is built from the bytes the local array happened to hold.  alloc  *)
(* is the outcome of dbus_message_new_method_return, which is not looked   *)
(* at either: libdbus refuses to append to a NULL message and the handler  *)
(* returns NULL.  No getter opens a socket or issues a request.            *)
(***************************************************************************)
UNINIT_STR == "uninitialised"

handle_dev_get_address_req(got, alloc) ==
    IF ~alloc THEN Handled(NoReply, FALSE, <<>>)
    ELSE Handled(Return(<<IF got THEN "address" ELSE UNINIT_STR>>), FALSE, <<>>)

handle_dev_get_version_req(got, alloc) ==
    IF ~alloc THEN Handled(NoReply, FALSE, <<>>)
    ELSE Handled(Return(<<IF got THEN "version" ELSE UNINIT_STR>>), FALSE, <<>>)

handle_dev_get_revision_req(got, alloc) ==
    IF ~alloc THEN Handled(NoReply, FALSE, <<>>)
    ELSE Handled(Return(<<IF got THEN "revision" ELSE UNINIT_STR>>), FALSE, <<>>)

handle_dev_get_manufacturer_req(got, alloc) ==
    IF ~alloc THEN Handled(NoReply, FALSE, <<>>)
    ELSE Handled(Return(<<IF got THEN "manufacturer" ELSE UNINIT_STR>>), FALSE, <<>>)

handle_dev_get_company_req(got, alloc) ==
    IF ~alloc THEN Handled(NoReply, FALSE, <<>>)
    ELSE Handled(Return(<<IF got THEN "company" ELSE UNINIT_STR>>), FALSE, <<>>)

CachedGetters ==
    {"handle_dev_get_address_req", "handle_dev_get_version_req",
     "handle_dev_get_revision_req", "handle_dev_get_manufacturer_req",
     "handle_dev_get_company_req"}

GetCachedHandle(handler_func, got, alloc) ==
    CASE handler_func = "handle_dev_get_address_req" ->
            handle_dev_get_address_req(got, alloc)
      [] handler_func = "handle_dev_get_version_req" ->
            handle_dev_get_version_req(got, alloc)
      [] handler_func = "handle_dev_get_revision_req" ->
            handle_dev_get_revision_req(got, alloc)
      [] handler_func = "handle_dev_get_manufacturer_req" ->
            handle_dev_get_manufacturer_req(got, alloc)
      [] handler_func = "handle_dev_get_company_req" ->
            handle_dev_get_company_req(got, alloc)

\* one of the five getters, called by msg_func_device, which sends the
\* message the handler returns
GetCached ==
    /\ Unapplied
    /\ \E h \in CachedGetters, got \in BOOLEAN, alloc \in BOOLEAN :
          last' = [op |-> "getter", handler_func |-> h, got |-> got,
                   alloc |-> alloc, out |-> GetCachedHandle(h, got, alloc)]
    /\ UNCHANGED <<started, crashed, connection, busUp, filterOn, tree,
                   default_dev, kernelDevs, timerArmed, pinreq>>

(***************************************************************************)
(* handle_dev_discover_req: OCF_INQUIRY with the general inquiry LAP,      *)
(* length 8 and no limit on responses, waiting for EVT_CMD_STATUS only.    *)
(* hci_send_req hands back the command status in rp for a request whose    *)
(* event is EVT_CMD_STATUS; the handler does not read rp.  The system      *)
(* error codes are BLUEZ_ESYSTEM_OFFSET + errno.                           *)
(***************************************************************************)
handle_dev_discover_req(e) ==
    IF ~e.open THEN Handled(bluez_new_failure_msg("ESYSTEM"), TRUE, <<>>)
    ELSE LET rq == <<[ocf |-> "OCF_INQUIRY", event |-> "EVT_CMD_STATUS",
                      cparam |-> [lap |-> "0x9e8b33", length |-> 8,
                                  num_rsp |-> 0]]>>
         IN IF ~e.send
            THEN Handled(bluez_new_failure_msg("ESYSTEM"), TRUE, rq)
            ELSE IF ~e.alloc THEN Handled(NoReply, TRUE, rq)
            ELSE Handled(Return(<<>>), TRUE, rq)

Discover ==
    /\ Unapplied
    /\ \E e \in HciEnv :
          last' = [op |-> "handle_dev_discover_req", e |-> e,
                   out |-> handle_dev_discover_req(e)]
    /\ UNCHANGED <<started, crashed, connection, busUp, filterOn, tree,
                   default_dev, kernelDevs, timerArmed, pinreq>>

(***************************************************************************)
(* handle_dev_create_bonding_req(peer) on the record of controller id.     *)
(* up holds the controllers that are HCI_UP, links the ACL links they      *)
(* hold, as pairs <<controller, peer>>.  find_conn is defined outside this *)
(* file: it tells whether a controller holds a link to the address.        *)
(* hci_for_each_dev walks the kernel's device list, which is in id order,  *)
(* and yields the first controller that is up and for which the function   *)
(* holds, or -1.  e is the first step that fails after the lookup          *)
(* (hci_open_dev, malloc, HCIGETCONNINFO, hci_send_req, the allocation of  *)
(* the method return) or "ok"; rp is not read.                             *)
(***************************************************************************)
NO_DEV == -1

Links == SUBSET (Devs \X Addrs)

find_conn(links, dev, peer) == <<dev, peer>> \in links

hci_for_each_dev(up, links, peer) ==
    LET found == {d \in up : find_conn(links, d, peer)}
    IN IF found = {} THEN NO_DEV
       ELSE CHOOSE d \in found : \A x \in found : d <= x

BondingEnv == {"open", "malloc", "conninfo", "send", "alloc", "ok"}

AuthRequested(id, peer) ==
    <<[ocf |-> "OCF_AUTH_REQUESTED", event |-> "EVT_CMD_STATUS",
       cparam |-> [handle |-> <<id, peer>>]]>>

\* a variant of handle_dev_create_bonding_req without the comparison of
\* the controller found with the controller of the path
handle_dev_create_bonding_req_any_controller(id, peer, dev_id, e) ==
    IF dev_id < 0
    THEN Handled(bluez_new_failure_msg("BLUEZ_EDBUS_CONN_NOT_FOUND"), FALSE, <<>>)
    ELSE IF e = "open"
    THEN Handled(bluez_new_failure_msg("BLUEZ_ESYSTEM_ENODEV"), TRUE, <<>>)
    ELSE IF e = "malloc"
    THEN Handled(bluez_new_failure_msg("BLUEZ_EDBUS_NO_MEM"), TRUE, <<>>)
    ELSE IF e = "conninfo"
    THEN Handled(bluez_new_failure_msg("ESYSTEM"), TRUE, <<>>)
    ELSE IF e = "send"
    THEN Handled(bluez_new_failure_msg("ESYSTEM"), TRUE, AuthRequested(dev_id, peer))
    ELSE IF e = "alloc"
    THEN Handled(NoReply, TRUE, AuthRequested(dev_id, peer))
    ELSE Handled(Return(<<>>), TRUE, AuthRequested(dev_id, peer))

\* dev_id is the result of hci_for_each_dev(HCI_UP, find_conn, &bdaddr)
handle_dev_create_bonding_req(id, peer, dev_id, e) ==
    IF dev_id < 0
    THEN Handled(bluez_new_failure_msg("BLUEZ_EDBUS_CONN_NOT_FOUND"), FALSE, <<>>)
    ELSE IF id # dev_id
    THEN Handled(bluez_new_failure_msg("BLUEZ_EDBUS_CONN_NOT_FOUND"), FALSE, <<>>)
    ELSE IF e = "open"
    THEN Handled(bluez_new_failure_msg("BLUEZ_ESYSTEM_ENODEV"), TRUE, <<>>)
    ELSE IF e = "malloc"
    THEN Handled(bluez_new_failure_msg("BLUEZ_EDBUS_NO_MEM"), TRUE, <<>>)
    ELSE IF e = "conninfo"
    THEN Handled(bluez_new_failure_msg("ESYSTEM"), TRUE, <<>>)
    ELSE IF e = "send"
    THEN Handled(bluez_new_failure_msg("ESYSTEM"), TRUE, AuthRequested(dev_id, peer))
    ELSE IF e = "alloc"
    THEN Handled(NoReply, TRUE, AuthRequested(dev_id, peer))
    ELSE Handled(Return(<<>>), TRUE, AuthRequested(dev_id, peer))

CreateBonding ==
    /\ Unapplied
    /\ \E id \in Devs, peer \in Addrs, up \in SUBSET Devs, links \in Links,
          e \in BondingEnv :
          last' = [op |-> "handle_dev_create_bonding_req", id |-> id,
                   peer |-> peer, up |-> up, links |-> links, e |-> e,
                   out |-> handle_dev_create_bonding_req(
                              id, peer, hci_for_each_dev(up, links, peer), e)]
    /\ UNCHANGED <<started, crashed, connection, busUp, filterOn, tree,
                   default_dev, kernelDevs, timerArmed, pinreq>>

(***************************************************************************)
(* The signals hcid_dbus_setscan_enable_complete hands to                  *)
(* dbus_connection_send: DEV_SIG_MODE_CHANGED on the controller's path     *)
(* with the mode of the byte read, once the byte was stored through the    *)
(* pointer that dbus_connection_get_object_path_data gave, for the three   *)
(* bytes the switch names.  sig is the first step of the emission that     *)
(* fails (the allocation of the message, dbus_connection_send) or "ok".    *)
(***************************************************************************)
SignalEnv == {"alloc", "send", "ok"}

ModeChanged(id, scan_mode) ==
    [path |-> DevPath(id), name |-> "DEV_SIG_MODE_CHANGED", args |-> <<scan_mode>>]

setscan_enable_complete_signals(s, id, e, sig) ==
    IF /\ e.q.r = "ok" /\ e.getdata /\ s.connection # "NULL"
       /\ IsBound(s.tree, DevPath(id))
       /\ e.q.enable \in {SCAN_DISABLED, SCAN_PAGE, SCAN_PAGE + SCAN_INQUIRY}
       /\ sig = "ok"
    THEN <<ModeChanged(id, ScanModeOf(e.q.enable))>>
    ELSE <<>>

\* hcid_dbus_setscan_enable_complete on an open connection whose tree holds
\* rec at the path of controller id: the record of a registered controller,
\* or nothing when its registration failed
SetScanRecords(id) == {NoEntry} \cup {DeviceRecord(id, b) : b \in ScanValues}

SetScanState(id, rec) ==
    [connection |-> "open", filterOn |-> TRUE,
     tree |-> [EmptyTree EXCEPT ![DevPath(id)] = rec], default_dev |-> id]

SetScanOutcome(id, rec, e, sig, r, signals) ==
    [op |-> "hcid_dbus_setscan_enable_complete", id |-> id, rec |-> rec,
     e |-> e, sig |-> sig, crash |-> r.crash, stored |-> r.stored,
     after |-> r.s.tree[DevPath(id)],
     signals |-> IF r.crash THEN <<>> ELSE signals]

SetScanApplied ==
    /\ Unapplied
    /\ \E id \in Devs, e \in RegEnv, sig \in SignalEnv :
       \E rec \in SetScanRecords(id) :
          last' = SetScanOutcome(id, rec, e, sig,
                     hcid_dbus_setscan_enable_complete(SetScanState(id, rec), id, e),
                     setscan_enable_complete_signals(SetScanState(id, rec), id, e, sig))
    /\ UNCHANGED <<started, crashed, connection, busUp, filterOn, tree,
                   default_dev, kernelDevs, timerArmed, pinreq>>

(***************************************************************************)
(* hcid_dbus_init as a function: applied to the state of a hcid that has   *)
(* no connection yet, for every reachability of the bus and every failing  *)
(* step.                                                                   *)
(***************************************************************************)
InitApplied ==
    /\ Unapplied
    /\ \E bus \in BOOLEAN, e \in InitEnv :
          last' = [op |-> "hcid_dbus_init", bus |-> bus, e |-> e,
                   out |-> hcid_dbus_init(
                              [connection |-> "NULL", filterOn |-> FALSE,
                               tree |-> EmptyTree,
                               default_dev |-> NO_DEFAULT], bus, e)]
    /\ UNCHANGED <<started, crashed, connection, busUp, filterOn, tree,
                   default_dev, kernelDevs, timerArmed, pinreq>>

(***************************************************************************)
(* hcid_dbus_register_device as a function: applied to an open connection  *)
(* whose tree holds rec at the controller's path (nothing, or the record   *)
(* of an earlier registration), for every outcome of the allocations, of   *)
(* the query, of the lookup and of the signal.  The BLUEZ_MGR_DEV_ADDED    *)
(* signal of MANAGER_PATH carries the controller's path; it is built and   *)
(* sent after the lookup, whatever register_dbus_path returned.            *)
(***************************************************************************)
DeviceAdded(id) ==
    [path |-> MANAGER_PATH, name |-> "BLUEZ_MGR_DEV_ADDED", args |-> <<DevPath(id)>>]

register_device_signals(s, id, e, sig) ==
    IF sig = "ok" /\ s.connection # "NULL" THEN <<DeviceAdded(id)>> ELSE <<>>

RegisterApplied ==
    /\ Unapplied
    /\ \E id \in Devs, e \in RegEnv, sig \in SignalEnv :
       \E rec \in SetScanRecords(id) :
          LET r == hcid_dbus_register_device(SetScanState(id, rec), id, e)
          IN last' = [op |-> "hcid_dbus_register_device", id |-> id,
                      rec |-> rec, e |-> e, sig |-> sig, ret |-> r.ret,
                      crash |-> r.crash, after |-> r.s.tree[DevPath(id)],
                      signals |-> IF r.crash THEN <<>>
                                  ELSE register_device_signals(
                                           SetScanState(id, rec), id, e, sig)]
    /\ UNCHANGED <<started, crashed, connection, busUp, filterOn, tree,
                   default_dev, kernelDevs, timerArmed, pinreq>>

NextRouter ==
    \/ RouteDevice
    \/ RouteManager
    \/ ServeDevice
    \/ BuildFailure
    \/ RemoteName
    \/ GetCached
    \/ Discover
    \/ CreateBonding
    \/ SetScanApplied
    \/ InitApplied
    \/ RegisterApplied

SpecRouter == Init /\ [][NextRouter]_vars

(***************************************************************************)
(* Lookups used by the properties.                                         *)
(***************************************************************************)
\* dbus_connection_get_object_path_data on the device path of controller d
\* yields a record that is allocated, of kind DEVICE and with d's id
LookupIsDevice(tr, d) ==
    /\ IsBound(tr, DevPath(d))
    /\ ~tr[DevPath(d)].freed
    /\ tr[DevPath(d)].path_id = DEVICE_PATH_ID
    /\ tr[DevPath(d)].dev_id = d

\* the controllers whose device path is bound to an allocated record
Registered(tr) == {d \in Devs : IsBound(tr, DevPath(d)) /\ ~tr[DevPath(d)].freed}

Range(f) == {f[i] : i \in DOMAIN f}

(***************************************************************************)
(* Properties of the PIN correlator (checked under SpecPin).               *)
(***************************************************************************)

\* C1: every PIN-needed event gets exactly one of PIN_CODE_REPLY and
\* PIN_CODE_NEG_REPLY over the life of its request: never two commands, and
\* one command once the request is no longer pending.
C1_ExactlyOneCommand ==
    \A i \in DOMAIN pinreq :
        /\ Len(pinreq[i].cmds) <= 1
        /\ pinreq[i].st # "pending" => Len(pinreq[i].cmds) = 1

\* C2: when the agent's reply is delivered, a method return whose first
\* argument is a string yields PIN_CODE_REPLY with exactly that string, its
\* length and the request's address on the request's controller; an error
\* or another first argument yields PIN_CODE_NEG_REPLY for that address.
C2_ReplyDecidesCommand ==
    (last.op = "pin_reply" /\ last.m.type # "none") =>
        LET req == pinreq[last.i]
        IN req.cmds =
              IF last.m.type = "return" /\ last.m.arg = "string"
              THEN <<PinReply(req.dev, req.bda, last.m.pin)>>
              ELSE <<PinNegReply(req.dev, req.bda)>>

\* C3: a PIN-needed event that arrives while the bus is unreachable (after
\* the bus-loss signal was handled, or with no connection and a failing
\* initialization) is answered at once with PIN_CODE_NEG_REPLY for its
\* controller and address, and no request goes to an agent.
C3_UnreachableBusRejectsAtOnce ==
    (/\ last.op = "request_pin"
     /\ \/ last.conn = "stale"
        \/ last.conn = "NULL" /\ ~last.init)
    => LET req == pinreq[Len(pinreq)]
       IN /\ req.cmds = <<PinNegReply(req.dev, req.bda)>>
          /\ ~req.agent

(***************************************************************************)
(* Properties of the reconnect loop (checked under Spec).                  *)
(***************************************************************************)

\* C4: when reconnect_timer_handler ends after a successful hcid_dbus_init,
\* every controller the kernel enumerates has its device path registered,
\* once: by exactly one successful registration of this pass or by the
\* record the path already had on this connection.
C4_AllControllersRegistered ==
    (last.op = "timer" /\ last.init) =>
        /\ \A d \in kernelDevs : LookupIsDevice(tree, d)
        /\ last.ok \subseteq kernelDevs

\* C5: the Disconnected signal leaves the connection closed and released
\* and the reconnect timer armed; a timer expiry whose initialization fails
\* leaves the timer armed, one whose initialization succeeds disarms it.
C5_TimerArmedUntilReconnected ==
    /\ last.op = "disconnected" => connection = "stale" /\ timerArmed
    /\ last.op = "timer" => (timerArmed <=> ~last.init)

\* C6: at the end of a timer expiry that reconnected, the default is the
\* first enumerated controller whose registration succeeded, or none when
\* no registration succeeded: never the default held before the bus loss
\* unless the pass computed it again.
C6_DefaultRecomputed ==
    (last.op = "timer" /\ last.init) =>
        default_dev = IF last.ok = {} THEN NO_DEFAULT
                      ELSE CHOOSE d \in last.ok : \A x \in last.ok : d <= x

(***************************************************************************)
(* Properties of the registry (checked under Spec).                        *)
(***************************************************************************)

\* C7: after hcid_dbus_unregister_device(C) for the default controller C,
\* GetDefaultDevice does not report C's path, whatever hci_get_route
\* returned and whether or not the unbind succeeded.
C7_RemovedDefaultNotReported ==
    [][(last'.op = "unregister" /\ default_dev = last'.id) =>
          \A alloc \in BOOLEAN :
             handle_mgr_default_device_req(default_dev', alloc)
                 # Return(<<DevPath(last'.id)>>)]_vars

\* the registration step of C8: default_dev is a controller id or none; a
\* registration that returns TRUE makes its controller the default exactly
\* when there was none, any other registration leaves the default as it was
RegistrationSetsDefault ==
    /\ default_dev' \in Devs \cup {NO_DEFAULT}
    /\ last'.op = "register" =>
          default_dev' = IF last'.ret /\ default_dev = NO_DEFAULT
                         THEN last'.id ELSE default_dev

\* C8 as stated: the registration step, and hence a controller that is the
\* only registered one is the default.
C8_OnlyRegisteredIsDefault ==
    [][/\ RegistrationSetsDefault
       /\ \A c \in Devs : Registered(tree') = {c} => default_dev' = c]_vars

\* C8 as amended: the registration step alone.  The only registered
\* controller need not be the default: after the default is unregistered
\* hci_get_route may return none while another controller stays registered.
C8_RegistrationSetsDefault == [][RegistrationSetsDefault]_vars

\* a later registration that succeeded and left an older default in place
C8_Witness ==
    /\ last.op = "register"
    /\ last.ret
    /\ default_dev \in Devs \ {last.id}

\* the lookup half of C9: a registration that returns TRUE leaves a DEVICE
\* record with the controller's id at its path, and the record stays while
\* the connection stays connected and the controller is not unregistered
LookupFindsRegistered ==
    /\ (last'.op = "register" /\ last'.ret) => LookupIsDevice(tree', last'.id)
    /\ \A d \in Devs :
          (/\ LookupIsDevice(tree, d)
           /\ connection = "open" /\ connection' = "open"
           /\ ~(last'.op = "unregister" /\ last'.id = d))
          => LookupIsDevice(tree', d)

\* the controllers C9 speaks of: registered on the connected connection
Reachable(conn, tr) == IF conn = "open" THEN Registered(tr) ELSE {}

C10_CachedModeAfterRegistration ==
    (last.op = "register" /\ last.ret) =>
        tree[DevPath(last.id)].path_data =
            IF last.fell THEN SCAN_PAGE + SCAN_INQUIRY ELSE last.enable

\* a call that was handed to the handler function h and answered by msg
Answered(l, h, msg) ==
    l.op = "call" /\ l.invoked = <<h>> /\ l.sent = <<msg>>

\* SetMode was answered by a success and the next step is a call to the
\* same controller that reaches the handler function h, both with a record
\* whose cached mode was written at registration
AfterSetMode(h) ==
    /\ Answered(last, "handle_dev_set_mode_req", Return(<<>>))
    /\ last.path_data # UNINIT
    /\ last'.op = "call"
    /\ last'.path_data # UNINIT
    /\ last'.id = last.id
    /\ last'.invoked = <<h>>

\* C11: after SetMode(X) was answered by a success, a GetMode that follows
\* it returns X, and a second SetMode(X) that follows it issues no write
\* scan enable (the first call having updated the cached mode).
C11_SetModeUpdatesCachedMode ==
    [][/\ AfterSetMode("handle_dev_get_mode_req") =>
              last'.sent = <<Return(<<last.arg>>)>>
       /\ (/\ AfterSetMode("handle_dev_set_mode_req")
           /\ last'.arg = last.arg
           /\ last'.sent = <<Return(<<>>)>>) =>
              (last.requests = <<>> \/ last'.requests = <<>>)]_vars

\* C12: a SetMode whose requested mode maps to the scan byte the record
\* already caches issues no write request and is answered by a success.
C12_SameModeIsNoOp ==
    (/\ last.op = "call"
     /\ last.invoked = <<"handle_dev_set_mode_req">>
     /\ last.path_data # UNINIT
     /\ HciModeOf(last.arg) = last.path_data) =>
        (last.requests = <<>> /\ last.sent = <<Return(<<>>)>>)

\* the step is a SetMode call that is not answered by a success
SetModeFails ==
    /\ last'.op = "call"
    /\ last'.invoked = <<"handle_dev_set_mode_req">>
    /\ last'.sent # <<Return(<<>>)>>

\* C13: a SetMode that is answered by an error (invalid parameter, no
\* device, transport error, controller status) leaves the cached mode of
\* every record as it was, and for an invalid mode neither opens the
\* transport nor issues a request.
C13_FailedSetModeKeepsCachedMode ==
    [][SetModeFails =>
          /\ \A p \in Paths : tree'[p].path_data = tree[p].path_data
          /\ HciModeOf(last'.arg) = UNINIT =>
                (~last'.opened /\ last'.requests = <<>>)]_vars

\* SetMode issued the write and was answered by the error of the
\* controller's status
C13_Witness ==
    /\ last.op = "call"
    /\ last.invoked = <<"handle_dev_set_mode_req">>
    /\ last.path_data # UNINIT
    /\ last.sent = <<Failure("HCI_COMMAND_DISALLOWED")>>
    /\ last.requests # <<>>

UnknownPathOnly(l) ==
    l.invoked = <<>> /\ l.sent = <<Failure("BLUEZ_EDBUS_UNKNOWN_PATH")>>

\* C15: a call that libdbus hands to the device root's fallback entry is
\* answered by "unknown path" with no handler function called; this holds
\* for a call to a controller's path that follows the controller's
\* unregistration.
C15_FallbackAnswersUnknownPath ==
    [][/\ (last'.op = "call" /\ last'.path_id = DEVICE_ROOT_ID) =>
              UnknownPathOnly(last')
       /\ (/\ last.op = "unregister"
           /\ last'.op = "call"
           /\ last'.id = last.id) => UnknownPathOnly(last')]_vars

\* the call of the router recorded in l went through the table lookup: the
\* record is not the device root's, the interface is the manager's
LookedUp(l) ==
    \/ l.op = "msg_func_device" /\ l.path_id = DEVICE_PATH_ID
    \/ l.op = "msg_func_manager" /\ l.iface = MANAGER_INTERFACE

NameMatches(l) ==
    {i \in DOMAIN l.handlers : l.handlers[i].name = l.method}

FullMatches(l) ==
    {i \in NameMatches(l) : l.handlers[i].signature = l.signature}

\* C16: in the device router and in the manager router, a call that goes
\* through the table lookup, whose method name is the name of at least one
\* entry and whose signature is the signature of none of these, is
\* answered by the "wrong signature" error (not by "method not found") and
\* no handler function is called.
C16_NameWithoutSignature ==
    (LookedUp(last) /\ NameMatches(last) # {} /\ FullMatches(last) = {}) =>
        /\ last.out.sent = <<Failure("BLUEZ_EDBUS_WRONG_SIGNATURE")>>
        /\ last.out.invoked = <<>>

\* the manager router looked up a name that two entries of the table
\* carry, both with another signature
C16_Witness ==
    /\ last.op = "msg_func_manager"
    /\ last.iface = MANAGER_INTERFACE
    /\ Cardinality(NameMatches(last)) = 2
    /\ FullMatches(last) = {}
    /\ last.out.sent = <<Failure("BLUEZ_EDBUS_WRONG_SIGNATURE")>>

C18_OtherInterfaceNotHandled ==
    (last.op = "msg_func_manager" /\ last.iface # MANAGER_INTERFACE) =>
        /\ ~last.out.crash
        /\ last.out.ret = "NOT_YET_HANDLED"
        /\ last.out.invoked = <<>>
        /\ last.out.sent = <<>>

\* C19: a call that the device router hands to a handler function is
\* answered by one message, a method return or an error, for every handler
\* and every outcome of its transport requests.
C19_OneReplyPerCall ==
    (last.op = "serve" /\ last.invoked # <<>>) => Len(last.sent) = 1

\* the codes whose text bluez_dbus_error_to_str resolves: the system
\* errors and the codes that the table of their range lists
Recognised ==
    SystemCodes
        \cup {dbus_error_array[i].code : i \in DOMAIN dbus_error_array}
        \cup {hci_error_array[i].code : i \in DOMAIN hci_error_array}

\* no message is built for a code that is not recognised, and a message
\* that is built is an error with a text and with the code as argument
NoReplyWithoutText ==
    /\ last.ecode \notin Recognised => last.reply = NoReply
    /\ last.ecode \in Recognised =>
          /\ last.reply.kind = "error"
          /\ last.reply.text # NULL_STR
          /\ last.reply.text = last.error_msg
          /\ last.reply.code = last.ecode

C21_RemoteNameFromCacheOrController ==
    (last.op = "handle_dev_remote_name_req" /\ last.e.devinfo) =>
        /\ last.e.cached =>
              /\ last.out.signals =
                    <<[path |-> DevPath(last.id),
                       name |-> "DEV_SIG_REMOTE_NAME",
                       args |-> <<last.peer, "name">>]>>
              /\ last.out.reply = Return(<<>>)
              /\ last.out.requests = <<>>
        /\ ~last.e.cached =>
              /\ last.out.signals = <<>>
              /\ last.e.hci.open =>
                    last.out.requests =
                        <<[ocf |-> "OCF_REMOTE_NAME_REQ",
                           cparam |-> last.peer]>>
              /\ last.out.reply =
                    IF ~last.e.hci.open \/ ~last.e.hci.send
                    THEN Failure("ESYSTEM")
                    ELSE IF last.e.hci.status # "OK"
                    THEN Failure(last.e.hci.status)
                    ELSE Return(<<>>)

\* C22: GetDefaultDevice is answered by the device path of the default
\* controller, and by the ENODEV error exactly when there is no default
\* controller; it leaves the default as it is.
C22_DefaultDeviceReply ==
    [][last'.op = "GetDefaultDevice" =>
          /\ default_dev' = default_dev
          /\ last'.reply = IF default_dev = NO_DEFAULT
                           THEN Failure("BLUEZ_ESYSTEM_ENODEV")
                           ELSE Return(<<DevPath(default_dev)>>)]_vars

(***************************************************************************)
(* Unregistering a controller (checked under Spec).                        *)
(***************************************************************************)
Before(effects, a, b) ==
    \A i, j \in DOMAIN effects : (effects[i] = a /\ effects[j] = b) => i < j

\* what C23 says of every unregistration but the emission itself: a signal
\* that is sent is sent before the record is freed and before the unbind,
\* the free comes before the unbind, the call fails exactly when the unbind
\* did not happen, a path still bound after a failure is bound to a freed
\* record, and after a success the path is bound to nothing
UnregisterOrder ==
    last.op = "unregister" =>
        /\ Before(last.effects, "DEV_REMOVED", "free")
        /\ Before(last.effects, "DEV_REMOVED", "unregister_object_path")
        /\ Before(last.effects, "free", "unregister_object_path")
        /\ last.ret <=> "unregister_object_path" \in Range(last.effects)
        /\ (~last.ret /\ IsBound(tree, DevPath(last.id)))
              => tree[DevPath(last.id)].freed
        /\ last.ret => ~IsBound(tree, DevPath(last.id))

\* C23 as stated: every unregistration of a controller emits the "removed"
\* signal first, then frees the record and unbinds the path; it fails exactly
\* when the unbind fails, the record being freed already, and after a
\* success the controller's path resolves to no DEVICE record.
C23_RemovedSignalAlways ==
    /\ UnregisterOrder
    /\ (last.op = "unregister" /\ connection # "NULL")
          => (Len(last.effects) > 0 /\ last.effects[1] = "DEV_REMOVED")

(***************************************************************************)
(* Shutdown (checked under SpecExit).                                      *)
(***************************************************************************)
\* the positions of last.calls at which path p was unbound
UnboundAt(p) ==
    {i \in DOMAIN last.calls :
        /\ last.calls[i].call = "unregister_dbus_path"
        /\ last.calls[i].path = p
        /\ last.calls[i].ret}

ClosedAt == {i \in DOMAIN last.calls : last.calls[i].call = "dbus_connection_close"}

Roots == {DEVICE_PATH, MANAGER_PATH}

\* C24: a shutdown that finds a connection unbinds every bound controller
\* path before it unbinds either root path, unbinds both root paths before
\* it closes the connection, and leaves no path bound and no record
\* allocated.
C24_ShutdownReleasesEverything ==
    (last.op = "exit" /\ last.conn # "NULL") =>
        /\ \A p \in last.bound \ Roots :
              \E i \in UnboundAt(p) :
                 \A r \in Roots : \A j \in UnboundAt(r) : i < j
        /\ \A r \in Roots :
              \E j \in UnboundAt(r) : \A k \in ClosedAt : j < k
        /\ ClosedAt # {}
        /\ \A p \in Paths : ~IsBound(last.tree, p)

(***************************************************************************)
(* The getters of a controller's strings (checked under SpecRouter).       *)
(***************************************************************************)
\* C25: GetAddress, GetVersion, GetRevision, GetManufacturer and GetCompany
\* answer with an error whenever the string could not be read and with a
\* string only when it was read; GetName answers with an error whenever the
\* socket cannot be opened, the request fails or the controller returns a
\* status other than zero, and with a string only when the read succeeded.
C25_GettersFailWithError ==
    /\ last.op = "getter" =>
          /\ ~last.got => last.out.reply.kind = "error"
          /\ last.out.reply.kind = "return" => last.got
    /\ (last.op = "serve" /\ last.method = "DEV_GET_NAME") =>
          /\ (last.requests = <<>> \/ ~last.send \/ last.status # "OK") =>
                (Len(last.sent) = 1 /\ last.sent[1].kind = "error")
          /\ (\E i \in DOMAIN last.sent : last.sent[i].kind = "return") =>
                (last.requests # <<>> /\ last.send /\ last.status = "OK")

\* C26: DiscoverDevices answers with a success only when the inquiry request
\* went through and the controller's command status is zero, having issued
\* the inquiry and waited for the command status alone; it answers with an
\* error when the socket cannot be opened, when the request fails and when
\* the controller rejects the command.
C26_DiscoverNeedsAcknowledgement ==
    last.op = "handle_dev_discover_req" =>
        /\ last.out.reply.kind = "return" =>
              /\ last.e.open /\ last.e.send /\ last.e.status = "OK"
              /\ Len(last.out.requests) = 1
              /\ last.out.requests[1].ocf = "OCF_INQUIRY"
              /\ last.out.requests[1].event = "EVT_CMD_STATUS"
        /\ (~last.e.open \/ ~last.e.send \/ last.e.status # "OK") =>
              last.out.reply.kind = "error"

\* the first controller, in id order, that is up and holds a link to the
\* peer of the call is the controller of the call
HolderIsCalled ==
    /\ last.id \in last.up
    /\ <<last.id, last.peer>> \in last.links
    /\ \A d \in last.up : <<d, last.peer>> \in last.links => last.id <= d

\* C27: CreateBonding(peer) on controller C issues the authentication
\* request, and opens C's socket, only if the controller found to hold a
\* link to peer is C; otherwise it answers "connection not found" without
\* any request; and when C is that controller, a failure to open the
\* socket, to read the connection's handle or to send the request is
\* answered with an error.
C27_BondingOnlyOnOwnLink ==
    last.op = "handle_dev_create_bonding_req" =>
        /\ (last.out.requests # <<>> \/ last.out.opened) => HolderIsCalled
        /\ last.out.requests # <<>> =>
              last.out.requests = AuthRequested(last.id, last.peer)
        /\ ~HolderIsCalled =>
              /\ last.out.reply = Failure("BLUEZ_EDBUS_CONN_NOT_FOUND")
              /\ last.out.reply.text = "Connection not found"
              /\ last.out.requests = <<>>
        /\ (HolderIsCalled /\ last.e \in {"open", "malloc", "conninfo", "send"})
              => last.out.reply.kind = "error"

\* a call on controller 1 that issued the authentication request and was
\* answered with a success while controller 0 holds a link to another peer
C27_Witness ==
    /\ last.op = "handle_dev_create_bonding_req"
    /\ last.id = 1
    /\ last.up = Devs
    /\ \E a \in Addrs : a # last.peer /\ <<0, a>> \in last.links
    /\ last.out.requests = AuthRequested(1, last.peer)
    /\ last.out.reply.kind = "return"

(***************************************************************************)
(* Termination of PIN requests (checked under SpecPinFair).                *)
(***************************************************************************)
Resolved(i) ==
    /\ i \in DOMAIN pinreq
    /\ pinreq[i].st # "pending"
    /\ \E k \in DOMAIN pinreq[i].cmds :
          pinreq[i].cmds[k].ocf \in {"PIN_CODE_REPLY", "PIN_CODE_NEG_REPLY"}

\* C28: every PIN request that went to the agent is resolved in the end:
\* its pending call is gone and PIN_CODE_REPLY or PIN_CODE_NEG_REPLY was
\* issued for it, whatever the pending call completes with and whatever
\* becomes of the connection meanwhile.
C28_PinRequestResolved ==
    \A i \in 1 .. MaxPinReq :
        (i \in DOMAIN pinreq /\ pinreq[i].agent /\ pinreq[i].st = "pending")
            ~> Resolved(i)

\* a completion that carries no message never leaves the request resolved
NoMessageNoCommand ==
    (last.op = "pin_reply" /\ last.m.type = "none") =>
        (pinreq[last.i].st # "pending" /\ pinreq[last.i].cmds = <<>>)

(***************************************************************************)
(* Recovery of the bus connection (checked under SpecReconnect).           *)
(***************************************************************************)
\* hcid_dbus_init went through on the connection in use: the connection is
\* connected, both root paths are bound to their records and the filter
\* is installed
Connected ==
    /\ connection = "open"
    /\ filterOn
    /\ tree[DEVICE_PATH].path_id = DEVICE_ROOT_ID
    /\ tree[DEVICE_PATH].fallback
    /\ ~tree[DEVICE_PATH].freed
    /\ tree[MANAGER_PATH].path_id = MANAGER_ROOT_ID
    /\ ~tree[MANAGER_PATH].freed

\* C29: once the bus was lost, a bus that is reachable again and stays so
\* leads to a connected service with both root paths registered, whatever
\* step failed in the reconnect attempts made before.
C29_ReconnectsWhenBusIsBack ==
    (connection \in {"dead", "stale"} /\ busUp) ~> (Connected \/ ~busUp)

(***************************************************************************)
(* The namespace while connected (checked under Spec).                     *)
(***************************************************************************)
\* the life cycle is CONNECTED: hcid_dbus_init went through on the
\* connection in use (the filter is its last step) and the filter has not
\* handled Disconnected since
CONNECTED == filterOn /\ connection \in {"open", "dead"}

Entries(tr, path_id) == {p \in Paths : tr[p].path_id = path_id}

\* the records of kind DEVICE that satisfy keep: each is at the path of its
\* own controller id, and no two carry the same id
DevicesWellFormed(keep(_)) ==
    LET devices == {p \in Entries(tree, DEVICE_PATH_ID) : keep(tree[p])}
    IN /\ \A p \in devices : p = DevPath(tree[p].dev_id)
       /\ \A p, q \in devices : tree[p].dev_id = tree[q].dev_id => p = q

RootsWellFormed ==
    /\ Entries(tree, DEVICE_ROOT_ID) = {DEVICE_PATH}
    /\ Entries(tree, MANAGER_ROOT_ID) = {MANAGER_PATH}
    /\ \A p \in {DEVICE_PATH, MANAGER_PATH} :
          tree[p].dev_id = INVALID_DEV_ID /\ ~tree[p].freed
    /\ tree[DEVICE_PATH].fallback

\* a DEVICE record that a step binds carries a controller the kernel lists
RegisteredWhenKnown ==
    \A p \in Paths :
        (/\ tree'[p].path_id = DEVICE_PATH_ID
         /\ ~tree'[p].freed
         /\ tree[p].path_id # DEVICE_PATH_ID)
        => tree'[p].dev_id \in kernelDevs'

Allocated(rec) == ~rec.freed
AnyRecord(rec) == TRUE

\* C30: whenever the life cycle is CONNECTED, the namespace holds exactly
\* one fallback record for the device root and one record for the manager
\* root, both with the invalid controller id; every DEVICE record bound in
\* it is a live record at the path of its own controller id, which the
\* kernel listed when it was registered; and no two DEVICE records carry
\* the same id.
C30_NamespaceWellFormed ==
    /\ [](CONNECTED =>
            /\ RootsWellFormed
            /\ DevicesWellFormed(AnyRecord)
            /\ \A p \in Entries(tree, DEVICE_PATH_ID) : ~tree[p].freed)
    /\ [][RegisteredWhenKnown]_vars

\* the same for the records that are still allocated
NamespaceWellFormedWhereAllocated ==
    /\ [](CONNECTED => (RootsWellFormed /\ DevicesWellFormed(Allocated)))
    /\ [][RegisteredWhenKnown]_vars

(***************************************************************************)
(* The completion of a scan-enable write (checked under SpecRouter).       *)
(***************************************************************************)
\* C31: when the read-back after a completed scan-enable write succeeds,
\* the cached mode of the controller's record becomes the byte read and
\* ModeChanged with the mode of that byte is emitted on the controller's
\* path exactly for the bytes disabled, page and page|inquiry; when the
\* controller is not found or not opened, or the read-back fails, the
\* record is unchanged and nothing is emitted.
C31_ReadBackUpdatesCachedMode ==
    last.op = "hcid_dbus_setscan_enable_complete" =>
        /\ ~last.crash
        /\ last.e.q.r = "ok" =>
              /\ last.after.path_data = last.e.q.enable
              /\ last.signals =
                    IF last.e.q.enable \in
                          {SCAN_DISABLED, SCAN_PAGE, SCAN_PAGE + SCAN_INQUIRY}
                    THEN <<ModeChanged(last.id, ScanModeOf(last.e.q.enable))>>
                    ELSE <<>>
        /\ last.e.q.r # "ok" =>
              (last.after = last.rec /\ last.signals = <<>>)

(***************************************************************************)
(* The registration of the root paths (checked under SpecRouter).          *)
(***************************************************************************)
\* libdbus hands a call to a path that has no handler to the handler of the
\* root above it when that root was registered as a fallback
ChildrenDelivered(tr, root) == IsBound(tr, root) /\ tr[root].fallback

\* a registration of a root that failed left nothing bound at that root
FailedRootLeavesNothing ==
    /\ last.out.step = "device_root" => ~IsBound(last.out.s.tree, DEVICE_PATH)
    /\ last.out.step = "manager_root" => ~IsBound(last.out.s.tree, MANAGER_PATH)

\* C32 as stated: each root that hcid_dbus_init registered takes the calls
\* to the unregistered paths below it, and a failed registration of a root
\* leaves no record.
C32_BothRootsAreFallbacks ==
    last.op = "hcid_dbus_init" =>
        /\ \A root \in {DEVICE_PATH, MANAGER_PATH} :
              IsBound(last.out.s.tree, root) =>
                 ChildrenDelivered(last.out.s.tree, root)
        /\ FailedRootLeavesNothing

\* C32: the device root that hcid_dbus_init registered takes the calls to
\* the unregistered paths below it; the manager root is registered for its
\* own path only and takes none; a failed registration of a root leaves no
\* record.
C32_OnlyDeviceRootIsFallback ==
    last.op = "hcid_dbus_init" =>
        /\ IsBound(last.out.s.tree, DEVICE_PATH) =>
              ChildrenDelivered(last.out.s.tree, DEVICE_PATH)
        /\ ~ChildrenDelivered(last.out.s.tree, MANAGER_PATH)
        /\ FailedRootLeavesNothing

\* an initialization that registered both roots
C32_Witness ==
    /\ last.op = "hcid_dbus_init"
    /\ last.out.ret
    /\ IsBound(last.out.s.tree, DEVICE_PATH)
    /\ IsBound(last.out.s.tree, MANAGER_PATH)

(***************************************************************************)
(* The reconnect attempt and the operations it interrupts (checked under   *)
(* SpecSignal).                                                            *)
(***************************************************************************)
\* C33: a registration of a controller during which the reconnect timer
\* expired ends as if the reconnect attempt had run before it or after it:
\* its result, the connection, the namespace and the default controller
\* are those of one of the two executions in which the attempt is not
\* interleaved with the registration.
C33_ReconnectNotInterleaved ==
    last.op = "register_signalled" => last.seen \in last.serial

(***************************************************************************)
(* Replies of the routers (checked under SpecRouter).                      *)
(***************************************************************************)
\* C34: a router that returns 'not yet handled' has sent no reply: a call
\* of msg_func_device or msg_func_manager whose result is NOT_YET_HANDLED
\* handed no message to dbus_connection_send.
C34_NoReplyUnlessHandled ==
    (/\ last.op \in {"msg_func_device", "msg_func_manager"}
     /\ ~last.out.crash
     /\ last.out.ret = "NOT_YET_HANDLED")
        => last.out.sent = <<>>

\* the same for the calls that do not reach the code after the loop with
\* the initial error: the manager's calls on another interface
NoReplyOnOtherInterface ==
    (/\ last.op = "msg_func_manager"
     /\ last.iface \notin {MANAGER_INTERFACE, NULL_IFACE})
        => last.out.ret = "NOT_YET_HANDLED" /\ last.out.sent = <<>>

(***************************************************************************)
(* The connection between the loss of the bus and the reconnect (checked   *)
(* under Spec).                                                            *)
(***************************************************************************)
\* C35: once the filter has closed and released the connection, and until
\* a reconnect attempt has put a new one in its place, no registration and
\* no unregistration of a controller runs on it: none registers a path on,
\* unregisters a path from, reads path data from or sends a signal on the
\* released connection.
C35_ClosedConnectionUnused ==
    [][connection = "stale" => last'.op \notin {"register", "unregister", "crash"}]_vars

(***************************************************************************)
(* The default controller and the registry (checked under Spec).           *)
(***************************************************************************)
\* C36: in every reachable state the default controller is none or a
\* controller whose device path is registered, with an allocated DEVICE
\* record: the path GetDefaultDevice returns resolves to a DEVICE entry.
C36_DefaultIsRegistered ==
    default_dev # NO_DEFAULT =>
        /\ default_dev \in Registered(tree)
        /\ tree[DevPath(default_dev)].path_id = DEVICE_PATH_ID

\* the same for the states reached by registrations alone: a registration
\* leaves a default whose path is registered when the default before it was
DefaultRegisteredAfterRegistration ==
    [][(last'.op = "register" /\ C36_DefaultIsRegistered)
           => C36_DefaultIsRegistered']_vars

(***************************************************************************)
(* What a failed hcid_dbus_init leaves behind (checked under Spec).        *)
(***************************************************************************)
\* hcid_dbus_init returned FALSE: called by main, or by the timer handler
FailedInit ==
    \/ last.op = "init" /\ ~last.ret
    \/ last.op = "timer" /\ ~last.init

\* C37: after an hcid_dbus_init that failed, at whatever step, no
\* connection is recorded and no path is bound, neither root included: the
\* next attempt finds the state of a process that never connected.
C37_FailedInitLeavesNothing ==
    FailedInit => connection = "NULL" /\ \A p \in Paths : ~IsBound(tree, p)

\* the step for which it holds (under SpecRouter): when dbus_bus_get fails
\* the connection recorded is NULL and nothing is bound
BusGetFailureLeavesNothing ==
    (last.op = "hcid_dbus_init" /\ last.out.step = "bus_get") =>
        /\ last.out.s.connection = "NULL"
        /\ \A p \in Paths : ~IsBound(last.out.s.tree, p)

(***************************************************************************)
(* A registration that failed (checked under SpecRouter).                  *)
(***************************************************************************)
\* C38: an hcid_dbus_register_device that returned FALSE sent no
\* "device added" signal, wrote through no record (it did not end the
\* process with a write through a null pointer) and left what was at the
\* controller's path, cached scan value included, as it found it.
C38_FailedRegistrationDoesNothing ==
    (last.op = "hcid_dbus_register_device" /\ ~last.ret) =>
        /\ last.signals = <<>>
        /\ ~last.crash
        /\ last.after = last.rec

\* the successful half: a registration that returned TRUE left a DEVICE
\* record of the controller at its path, with the value read when the
\* lookup succeeded, and sent the signal when it could be sent
SuccessfulRegistrationAnnounced ==
    (last.op = "hcid_dbus_register_device" /\ last.ret) =>
        /\ last.after.path_id = DEVICE_PATH_ID /\ last.after.dev_id = last.id
        /\ last.e.getdata => last.after.path_data = ScanEnableRead(last.e.q)
        /\ last.sig = "ok" => last.signals = <<DeviceAdded(last.id)>>

=============================================================================
